---- MODULE Spec2Model ----
(***************************************************************************)
(* Wallet ledger and escrow state machine of the payments API.            *)
(*                                                                         *)
(* The store holds the collections Wallet, Escrow, Transaction, User.  A   *)
(* request handler is an async function: every `await` on a store          *)
(* operation is a point where another request may run.  A handler is       *)
(* therefore modelled as a process whose steps are its store operations,   *)
(* each followed by the synchronous code up to the next store operation.   *)
(* A handler works on the documents it has loaded (its own copies) and     *)
(* `save()` writes the paths it has modified.                              *)
(*                                                                         *)
(* Spec     runs one request at a time (slot 1); `done` keeps its answer.  *)
(* SpecConc runs two requests (slots 2 and 3) interleaved at their awaits. *)
(* SpecLedger does the same with every handler that changes a wallet.      *)
(* The other specifications run a group of handlers on the store that     *)
(* their Init describes, one request at a time or two interleaved.         *)
(***************************************************************************)
EXTENDS Integers, Sequences, FiniteSets, TLC

VARIABLES wallets,   \* Wallet collection: wallet_id -> balances
          escrows,   \* Escrow collection: escrow_id -> document
          txs,       \* Transaction collection, in order of insertion
          req,       \* the requests in flight: slot -> handler state
          done,      \* the last answered request of slot 1, with its response code
          applied,   \* per escrow: how often a release / a refund credited a wallet
          feesCharged, \* fees withheld by the operations that moved funds
          openingTotal, \* the sum of all balances in the initial store
          accounts,  \* User collection: user id -> account document
          nreq       \* number of requests received

vars == <<wallets, escrows, txs, req, done, applied, feesCharged, openingTotal, accounts,
          nreq>>

-----------------------------------------------------------------------------
(* Bounds *)

MaxReqs == 3

SerialSlots == {1}
ConcSlots == {2, 3}
Slots == SerialSlots \cup ConcSlots

Wallets == {"W1", "W2"}
WalletIdsIn == Wallets \cup {"W0"}          \* W0: an id with no wallet
Users == {"U1", "U2"}
FulfilledByIn == {"payee", "courier"}        \* req.body.fulfilled_by
Strangers == {"U3"}                         \* a user who owns no wallet
PrimitiveAmounts == {0, 50, 100}            \* amounts the ledger primitives are called with
PrimitiveBalances == {0, 50, 100}           \* available and locked balances they are called on
PendingBalances == {0, 30}                  \* pending balances they are called on
EscrowIds == {"E1", "E2"}
CondIdsIn == {1, 2}                         \* condition ids a request may name
FreeFunds == {0, 300}                       \* initial available balance of W1
StoredAmounts == {50, 100}                  \* amounts of the escrows in the store
EscrowAmounts == {100}                      \* amounts createEscrow is asked for
TransferAmounts == {200}                    \* amounts transferFunds is asked for
PayoutAmounts == {200}                      \* amounts of payouts, fundings, withdrawals
PayoutMethodsIn == {"mpesa", "bank", "wallet", "card"}   \* destination.type / payment_method
TxIdsIn == {1, 2}                           \* transactions a callback may name
CollectionAmounts == {200}                  \* amounts createCollection is asked for
CollectionMethodsIn == {"mpesa", "card", "bank"}
DestinationTypesIn == {"wallet", "mpesa", "bank", "card"}   \* destination.type
RailAmounts == {200, 250000, 250001, 999998, 999999}     \* around the routing thresholds
CurrenciesIn == {"KES", "USD"}

-----------------------------------------------------------------------------
(* Wallet model: schema and ledger primitives *)

WalletOwner(w) == IF w = "W1" THEN "U1" ELSE "U2"

\* Wallet.find({ owner_id }) mapped to wallet ids
UserWalletIds(u) == {w \in Wallets : WalletOwner(w) = u}

\* the wallet findOrCreateWallet(userId, 'user') answers
WalletOwnedBy(u) == CHOOSE w \in Wallets : WalletOwner(w) = u

NoWallet == [available |-> 0, locked |-> 0, pending |-> 0, currency |-> "KES"]

\* schema validators of the balances (min: 0), run by save()
WalletValid(w) == w.available >= 0 /\ w.locked >= 0 /\ w.pending >= 0

HasSufficientFunds(w, amount, includeLocked) ==
  IF includeLocked THEN (w.available + w.locked) >= amount
                   ELSE w.available >= amount

\* A primitive returns ok (FALSE: it threw, nothing is written), the document
\* after the change and the paths save() writes.
Threw(w) == [ok |-> FALSE, doc |-> w, mod |-> {}]

Saved(w, paths) ==
  IF WalletValid(w) THEN [ok |-> TRUE, doc |-> w, mod |-> paths] ELSE Threw(w)

\* a lock that takes the amount from available and adds it nowhere
LockFundsOneSided(w, amount) ==
  IF ~HasSufficientFunds(w, amount, FALSE) THEN Threw(w)
  ELSE Saved([w EXCEPT !.available = @ - amount], {"available", "locked"})

LockFunds(w, amount) ==
  IF ~HasSufficientFunds(w, amount, FALSE) THEN Threw(w)
  ELSE Saved([w EXCEPT !.available = @ - amount, !.locked = @ + amount],
             {"available", "locked"})

UnlockFundsUnchecked(w, amount) ==
  [ok |-> TRUE,
   doc |-> [w EXCEPT !.locked = @ - amount, !.available = @ + amount],
   mod |-> {"available", "locked"}]

UnlockFunds(w, amount) ==
  IF w.locked < amount THEN Threw(w)
  ELSE Saved([w EXCEPT !.locked = @ - amount, !.available = @ + amount],
             {"available", "locked"})

ReleaseFunds(w, amount) ==
  IF w.locked < amount THEN Threw(w)
  ELSE Saved([w EXCEPT !.locked = @ - amount, !.available = @ + amount],
             {"available", "locked"})

\* a deduction without its check, saved without validation
DeductFundsUnchecked(w, amount) ==
  [ok |-> TRUE, doc |-> [w EXCEPT !.available = @ - amount], mod |-> {"available"}]

DeductFunds(w, amount) ==
  IF w.available < amount THEN Threw(w)
  ELSE Saved([w EXCEPT !.available = @ - amount], {"available"})

AddFunds(w, amount) ==
  Saved([w EXCEPT !.available = @ + amount], {"available"})

\* the methods of a wallet document that change its balances
Primitives == {"lockFunds", "unlockFunds", "releaseFunds", "deductFunds", "addFunds"}

\* wallet[p](amount)
ApplyPrimitive(p, w, amount) ==
  CASE p = "lockFunds" -> LockFunds(w, amount)
    [] p = "unlockFunds" -> UnlockFunds(w, amount)
    [] p = "releaseFunds" -> ReleaseFunds(w, amount)
    [] p = "deductFunds" -> DeductFunds(w, amount)
    [] p = "addFunds" -> AddFunds(w, amount)

\* save() of a wallet document: the modified paths overwrite the stored ones
WriteWallet(db, id, res) ==
  [db EXCEPT ![id] = [f \in DOMAIN @ |->
                        IF f \in res.mod THEN res.doc[f] ELSE @[f]]]

-----------------------------------------------------------------------------
(* User model: account status, mode and KYC state *)

UserStatuses == {"pending", "approved", "rejected", "suspended"}
Modes == {"test", "live"}
KycStatuses == {"not_submitted", "pending", "approved", "rejected"}

\* the account a registration creates; docs are the kyc_documents that are
\* set, live_keys says whether api_keys holds live keys
NewUser ==
  [status |-> "pending", mode |-> "test", kyc_status |-> "not_submitted",
   docs |-> {}, trust_score |-> 0, live_keys |-> FALSE]

Registered == [u \in Users |-> NewUser]

\* schema validation run by save(): the enums of status, mode and kyc_status
ValidUser(u) ==
  /\ u.status \in UserStatuses
  /\ u.mode \in Modes
  /\ u.kyc_status \in KycStatuses
  /\ u.trust_score \in 0..100

\* generateAPIKeys(): new test keys, and live keys when the mode is live
GenerateAPIKeys(u) == [u EXCEPT !.live_keys = (u.mode = "live")]

\* save() of a user document: the modified paths overwrite the stored ones
WriteUser(db, id, doc, mod) ==
  [db EXCEPT ![id] = [f \in DOMAIN @ |-> IF f \in mod THEN doc[f] ELSE @[f]]]

-----------------------------------------------------------------------------
(* Transaction model *)

TxTypes == {"collection", "payout", "escrow_hold", "escrow_release",
            "refund", "fee", "transfer"}
TxStatuses == {"pending", "processing", "completed", "failed", "cancelled",
               "reversed"}
PaymentMethods == {"mpesa", "card", "bank", "wallet"}

\* a Transaction as the handlers build it ("none": the path is not set)
NewTx(type, status, amount, pfee, plfee, tfee, net, sw, sm, dw, dm, eid) ==
  [type |-> type, status |-> status, amount |-> amount,
   processing_fee |-> pfee, platform_fee |-> plfee, total_fee |-> tfee,
   net_amount |-> net, src_wallet |-> sw, src_method |-> sm,
   dst_wallet |-> dw, dst_method |-> dm, escrow_id |-> eid, retry_count |-> 0,
   next_retry_at |-> FALSE, webhook_url |-> FALSE]

\* a validation that accepts any type
ValidTransactionAnyType(tx) ==
  /\ tx.status \in TxStatuses
  /\ tx.amount >= 0
  /\ tx.src_method \in PaymentMethods \cup {"none"}
  /\ tx.dst_method \in PaymentMethods \cup {"none"}

\* schema validation run by save(): enums and min
ValidTransaction(tx) ==
  /\ tx.type \in TxTypes
  /\ tx.status \in TxStatuses
  /\ tx.amount >= 0
  /\ tx.src_method \in PaymentMethods \cup {"none"}
  /\ tx.dst_method \in PaymentMethods \cup {"none"}

\* a pre('save') that recomputes nothing
PreSaveSkipped(tx, feesModified) == tx

\* pre('save'): when fees is modified (always so on a new document that sets
\* fees) the total and the net amount are recomputed
PreSave(tx, feesModified) ==
  IF feesModified
  THEN [tx EXCEPT !.total_fee = tx.processing_fee + tx.platform_fee,
                  !.net_amount = tx.amount - (tx.processing_fee + tx.platform_fee)]
  ELSE tx

NoTx == NewTx("none", "none", 0, 0, 0, 0, 0, "none", "none", "none", "none", "none")

-----------------------------------------------------------------------------
(* Escrow model *)

\* 2% escrow fee; the model's amounts are multiples of 50, for which
\* amount * 0.02 is exact
EscrowFee(amount) == (amount * 2) \div 100

\* 0.5% transfer fee; exact for multiples of 200
TransferFee(amount) == (amount * 5) \div 1000

NoEscrow ==
  [exists |-> FALSE, status |-> "none", amount |-> 0, payer |-> "none",
   payee |-> "none", conds |-> <<>>, auto_release |-> FALSE,
   require_all |-> TRUE, tx |-> 0, escrow_fee |-> 0, processing_fee |-> 0,
   total_fee |-> 0, disputes |-> 0, fulfilled_at |-> <<>>,
   fulfilled_by |-> <<>>]

\* the Escrow document createEscrow builds (status: schema default 'pending')
NewEscrow(amount, payer, payee, nconds, auto, tx) ==
  [exists |-> TRUE, status |-> "pending", amount |-> amount, payer |-> payer,
   payee |-> payee, conds |-> [i \in 1..nconds |-> FALSE],
   auto_release |-> auto, require_all |-> TRUE, tx |-> tx,
   escrow_fee |-> EscrowFee(amount), processing_fee |-> 0,
   total_fee |-> EscrowFee(amount) + 0, disputes |-> 0,
   fulfilled_at |-> [i \in 1..nconds |-> 0],
   fulfilled_by |-> [i \in 1..nconds |-> "none"]]

\* virtual allConditionsFulfilled
AllConditionsFulfilled(e) ==
  IF Len(e.conds) = 0 THEN TRUE
  ELSE \A i \in 1..Len(e.conds) : e.conds[i]

-----------------------------------------------------------------------------
(* Requests *)

\* no call has produced a result
NoResult == [skipped |-> TRUE]

\* the state of a handler: its inputs, its position and the documents it holds
IdleReq ==
  [op |-> "idle", pc |-> "idle", user |-> "none", eid |-> "none", cid |-> 0,
   ev |-> FALSE, amount |-> 0, src |-> "none", dst |-> "none", nconds |-> 0,
   auto |-> FALSE, esc |-> NoEscrow, pw |-> NoWallet, qw |-> NoWallet,
   tx |-> NoTx, txi |-> 0, method |-> "none", flag |-> FALSE,
   preW |-> [w \in Wallets |-> NoWallet],
   preE |-> [e \in EscrowIds |-> NoEscrow], preT |-> <<>>,
   currency |-> "none", attempt |-> 0, waits |-> <<>>, posts |-> 0,
   replies |-> <<>>, out |-> NoResult, fulfilled_by |-> "none",
   net_amount |-> 0, handed |-> 0, usr |-> NewUser, docs |-> {}]

\* a request as received: preW, preE and preT remember the store at that moment
NewReq(op, user) ==
  [IdleReq EXCEPT !.op = op, !.user = user, !.preW = wallets, !.preE = escrows,
                  !.preT = txs]

Answer(r, code) ==
  [op |-> r.op, user |-> r.user, eid |-> r.eid, cid |-> r.cid, ev |-> r.ev,
   amount |-> r.amount, src |-> r.src, dst |-> r.dst, code |-> code,
   txi |-> r.txi, method |-> r.method, flag |-> r.flag,
   preW |-> r.preW, preE |-> r.preE, preT |-> r.preT,
   currency |-> r.currency, attempt |-> r.attempt, waits |-> r.waits,
   posts |-> r.posts, replies |-> r.replies, out |-> r.out,
   fulfilled_by |-> r.fulfilled_by, net_amount |-> r.net_amount,
   handed |-> r.handed]

\* res.status(code).json(...): the handler ends
Respond(s, r, code) ==
  /\ req' = [req EXCEPT ![s] = IdleReq]
  /\ done' = IF s \in SerialSlots THEN Answer(r, code) ELSE done

\* the handler goes on to its next await (the snapshots preW, preE, preT serve
\* the answer recorded in done, which only slot 1 records)
Goto(s, r, pc) ==
  /\ req' = [req EXCEPT ![s] =
               IF s \in SerialSlots THEN [r EXCEPT !.pc = pc]
               ELSE [r EXCEPT !.pc = pc, !.preW = IdleReq.preW,
                              !.preE = IdleReq.preE, !.preT = IdleReq.preT]]
  /\ UNCHANGED done

Receive(s) ==
  /\ req[s].op = "idle"
  /\ nreq < MaxReqs
  /\ nreq' = nreq + 1

\* Escrow.findOne({ escrow_id }) finds a document
EscrowFound(e) == escrows[e].exists

-----------------------------------------------------------------------------
(* Init: the store holds wallets and active escrows, each escrow with its  *)
(* escrow_hold transaction and its amount locked in the payer wallet.      *)

StoredParties == {<<"W1", "W2">>}

\* E2, when present, is a second escrow of the same payer
SecondEscrows ==
  {NoEscrow,
   [NewEscrow(50, "W1", "W2", 1, FALSE, 0) EXCEPT !.status = "active"]}

StoredEscrows ==
  {NoEscrow} \cup
  {[NewEscrow(a, p[1], p[2], n, au, 0) EXCEPT !.status = "active"] :
     a \in StoredAmounts, p \in StoredParties, n \in {1, 2}, au \in BOOLEAN}

HoldTx(e, eid) ==
  NewTx("escrow_hold", "completed", e.amount, e.processing_fee, e.escrow_fee,
        e.total_fee, e.amount - e.total_fee, e.payer, "wallet", eid, "none", eid)

LockedFor(es, w) ==
  (IF es["E1"].exists /\ es["E1"].payer = w THEN es["E1"].amount ELSE 0) +
  (IF es["E2"].exists /\ es["E2"].payer = w THEN es["E2"].amount ELSE 0)

Init ==
  \E e1 \in StoredEscrows, e2 \in SecondEscrows, f \in FreeFunds :
    LET i1 == IF e1.exists THEN 1 ELSE 0
        i2 == IF e2.exists THEN i1 + 1 ELSE 0
        es == [e \in EscrowIds |->
                 IF e = "E1" THEN [e1 EXCEPT !.tx = i1]
                             ELSE [e2 EXCEPT !.tx = i2]]
    IN /\ escrows = es
       /\ wallets = [w \in Wallets |->
                       [available |-> IF w = "W1" THEN f ELSE 0, locked |-> LockedFor(es, w),
                        pending |-> 0, currency |-> "KES"]]
       /\ txs = (IF e1.exists THEN <<HoldTx(es["E1"], "E1")>> ELSE <<>>) \o
                (IF e2.exists THEN <<HoldTx(es["E2"], "E2")>> ELSE <<>>)
       /\ req = [s \in Slots |-> IdleReq]
       /\ done = Answer(NewReq("none", "none"), 0)
       /\ applied = [e \in EscrowIds |-> [released |-> 0, refunded |-> 0]]
       /\ feesCharged = 0
       /\ openingTotal = f + LockedFor(es, "W1") + LockedFor(es, "W2")
       /\ accounts = Registered
       /\ nreq = 0

-----------------------------------------------------------------------------
(* releaseEscrow *)

\* a status check that lets a disputed escrow through
ReleaseStatusWithDisputed(e) == e.status \in {"active", "disputed"}

\* if (escrow.status !== 'active') -> 400
ReleaseStatusOk(e) == e.status = "active"

\* a condition check that lets every escrow through
ReleaseConditionsSkipped(e) == TRUE

\* if (!escrow.allConditionsFulfilled && require_all_conditions) -> 400
ReleaseConditionsOk(e) ==
  ~(~AllConditionsFulfilled(e) /\ e.require_all)

\* the escrow_release Transaction: fees is the escrow's fees object, of which
\* the Transaction schema keeps processing_fee and total_fee (platform_fee
\* takes its default 0)
ReleaseTx(e, eid, hold) ==
  NewTx("escrow_release", "completed", e.amount, e.processing_fee, 0,
        e.total_fee, hold.net_amount, e.payer, "wallet", e.payee, "wallet", eid)

ReleaseEscrow(s) ==
  \/ /\ Receive(s)
     /\ \E u \in Users, e \in EscrowIds :
          LET r == [NewReq("release", u) EXCEPT !.eid = e] IN
          /\ IF ~EscrowFound(e) THEN Respond(s, r, 404)
             ELSE IF ~(escrows[e].payer \in UserWalletIds(u)) THEN Respond(s, r, 403)
             ELSE IF ~ReleaseStatusOk(escrows[e]) THEN Respond(s, r, 400)
             ELSE IF ~ReleaseConditionsOk(escrows[e]) THEN Respond(s, r, 400)
             ELSE Goto(s, [r EXCEPT !.esc = escrows[e]], "payee")
          /\ UNCHANGED <<wallets, escrows, txs, applied, feesCharged, openingTotal, accounts>>
  \/ /\ req[s].op = "release"
     /\ LET r == req[s] IN
        CASE r.pc = "payee" ->
               /\ Goto(s, [r EXCEPT !.qw = wallets[r.esc.payee]], "payer")
               /\ UNCHANGED <<wallets, escrows, txs, applied, feesCharged, openingTotal, accounts, nreq>>
          [] r.pc = "payer" ->
               /\ Goto(s, [r EXCEPT !.tx = txs[r.esc.tx],
                                    !.pw = wallets[r.esc.payer]], "release")
               /\ UNCHANGED <<wallets, escrows, txs, applied, feesCharged, openingTotal, accounts, nreq>>
          [] r.pc = "release" ->
               /\ escrows' = [escrows EXCEPT ![r.eid].status = "released"]
               /\ Goto(s, [r EXCEPT !.esc.status = "released"], "unlock")
               /\ UNCHANGED <<wallets, txs, applied, feesCharged, openingTotal, accounts, nreq>>
          [] r.pc = "unlock" ->
               LET res == UnlockFunds(r.pw, r.esc.amount) IN
               /\ IF res.ok
                  THEN /\ wallets' = WriteWallet(wallets, r.esc.payer, res)
                       /\ Goto(s, [r EXCEPT !.pw = res.doc], "deduct")
                  ELSE /\ Respond(s, r, 500)
                       /\ UNCHANGED wallets
               /\ UNCHANGED <<escrows, txs, applied, feesCharged, openingTotal, accounts, nreq>>
          [] r.pc = "deduct" ->
               LET res == DeductFunds(r.pw, r.esc.amount) IN
               /\ IF res.ok
                  THEN /\ wallets' = WriteWallet(wallets, r.esc.payer, res)
                       /\ Goto(s, [r EXCEPT !.pw = res.doc], "credit")
                  ELSE /\ Respond(s, r, 500)
                       /\ UNCHANGED wallets
               /\ UNCHANGED <<escrows, txs, applied, feesCharged, openingTotal, accounts, nreq>>
          [] r.pc = "credit" ->
               \* payeeWallet.addFunds: the store takes the save or rejects it
               \E stored \in BOOLEAN :
               LET res == IF stored THEN AddFunds(r.qw, r.tx.net_amount)
                                    ELSE Threw(r.qw) IN
               /\ IF res.ok
                  THEN /\ wallets' = WriteWallet(wallets, r.esc.payee, res)
                       /\ applied' = [applied EXCEPT ![r.eid].released = @ + 1]
                       /\ feesCharged' = feesCharged + r.esc.total_fee
                       /\ Goto(s, [r EXCEPT !.qw = res.doc], "record")
                  ELSE /\ Respond(s, r, 500)
                       /\ UNCHANGED <<wallets, applied, feesCharged>>
               /\ UNCHANGED <<escrows, txs, openingTotal, accounts, nreq>>
          [] r.pc = "record" ->
               LET t == ReleaseTx(r.esc, r.eid, r.tx) IN
               /\ IF ValidTransaction(t)
                  THEN /\ txs' = Append(txs, PreSave(t, TRUE))
                       /\ Respond(s, r, 200)
                  ELSE /\ Respond(s, r, 500)
                       /\ UNCHANGED txs
               /\ UNCHANGED <<wallets, escrows, applied, feesCharged, openingTotal, accounts, nreq>>

-----------------------------------------------------------------------------
(* refundEscrow *)

\* a status check that lets every escrow through
RefundStatusAny(e) == TRUE

RefundStatusOk(e) == e.status \in {"active", "disputed"}

\* the refund Transaction: its source is the escrow, payment_method 'escrow'
RefundTx(e, eid) ==
  NewTx("refund", "completed", e.amount, 0, 0, 0, e.amount,
        eid, "escrow", e.payer, "wallet", eid)

RefundEscrow(s) ==
  \/ /\ Receive(s)
     /\ \E u \in Users, e \in EscrowIds :
          LET r == [NewReq("refund", u) EXCEPT !.eid = e] IN
          /\ IF ~EscrowFound(e) THEN Respond(s, r, 404)
             ELSE IF ~(escrows[e].payer \in UserWalletIds(u)) THEN Respond(s, r, 403)
             ELSE IF ~RefundStatusOk(escrows[e]) THEN Respond(s, r, 400)
             ELSE Goto(s, [r EXCEPT !.esc = escrows[e]], "payer")
          /\ UNCHANGED <<wallets, escrows, txs, applied, feesCharged, openingTotal, accounts>>
  \/ /\ req[s].op = "refund"
     /\ LET r == req[s] IN
        CASE r.pc = "payer" ->
               /\ Goto(s, [r EXCEPT !.pw = wallets[r.esc.payer],
                                    !.tx = txs[r.esc.tx]], "refund")
               /\ UNCHANGED <<wallets, escrows, txs, applied, feesCharged, openingTotal, accounts, nreq>>
          [] r.pc = "refund" ->
               /\ escrows' = [escrows EXCEPT ![r.eid].status = "refunded"]
               /\ Goto(s, [r EXCEPT !.esc.status = "refunded"], "unlock")
               /\ UNCHANGED <<wallets, txs, applied, feesCharged, openingTotal, accounts, nreq>>
          [] r.pc = "unlock" ->
               LET res == UnlockFunds(r.pw, r.esc.amount) IN
               /\ IF res.ok
                  THEN /\ wallets' = WriteWallet(wallets, r.esc.payer, res)
                       /\ Goto(s, [r EXCEPT !.pw = res.doc], "credit")
                  ELSE /\ Respond(s, r, 500)
                       /\ UNCHANGED wallets
               /\ UNCHANGED <<escrows, txs, applied, feesCharged, openingTotal, accounts, nreq>>
          [] r.pc = "credit" ->
               LET res == AddFunds(r.pw, r.tx.amount) IN
               /\ IF res.ok
                  THEN /\ wallets' = WriteWallet(wallets, r.esc.payer, res)
                       /\ applied' = [applied EXCEPT ![r.eid].refunded = @ + 1]
                       /\ Goto(s, [r EXCEPT !.pw = res.doc], "record")
                  ELSE /\ Respond(s, r, 500)
                       /\ UNCHANGED <<wallets, applied>>
               /\ UNCHANGED <<escrows, txs, feesCharged, openingTotal, accounts, nreq>>
          [] r.pc = "record" ->
               LET t == RefundTx(r.esc, r.eid) IN
               /\ IF ValidTransaction(t)
                  THEN /\ txs' = Append(txs, PreSave(t, TRUE))
                       /\ Respond(s, r, 200)
                  ELSE /\ Respond(s, r, 500)
                       /\ UNCHANGED txs
               /\ UNCHANGED <<wallets, escrows, applied, feesCharged, openingTotal, accounts, nreq>>

-----------------------------------------------------------------------------
(* raiseDispute *)

\* raiseDispute; users: the callers
RaiseDisputeBy(s, users) ==
  \/ /\ Receive(s)
     /\ \E u \in users, e \in EscrowIds :
          LET r == [NewReq("dispute", u) EXCEPT !.eid = e] IN
          /\ IF ~EscrowFound(e) THEN Respond(s, r, 404)
             ELSE IF ~(escrows[e].payer \in UserWalletIds(u)
                       \/ escrows[e].payee \in UserWalletIds(u))
                  THEN Respond(s, r, 403)
             ELSE IF escrows[e].status # "active" THEN Respond(s, r, 400)
             ELSE Goto(s, [r EXCEPT !.esc = escrows[e]], "dispute")
          /\ UNCHANGED <<wallets, escrows, txs, applied, feesCharged, openingTotal, accounts>>
  \/ /\ req[s].op = "dispute"
     /\ req[s].pc = "dispute"
     /\ LET r == req[s] IN
        \* escrow.raiseDispute: push the dispute, status 'disputed', save
        /\ escrows' = [escrows EXCEPT ![r.eid].status = "disputed",
                                      ![r.eid].disputes = @ + 1]
        /\ Respond(s, r, 200)
        /\ UNCHANGED <<wallets, txs, applied, feesCharged, openingTotal, accounts, nreq>>

\* raiseDispute called by an owner of a wallet
RaiseDispute(s) == RaiseDisputeBy(s, Users)

\* raiseDispute called by any authenticated user
RaiseDisputeByAnyone(s) == RaiseDisputeBy(s, Users \cup Strangers)

-----------------------------------------------------------------------------
(* fulfillCondition *)

\* escrowSchema.methods.fulfillCondition on the loaded document: found is
\* FALSE when conditions.id(conditionId) is null (it throws)
EscrowFulfill(e, c, fulfilledBy, date) ==
  IF ~(c \in 1..Len(e.conds)) THEN [found |-> FALSE, doc |-> e]
  ELSE LET f == [e EXCEPT !.conds[c] = TRUE, !.fulfilled_at[c] = date,
                          !.fulfilled_by[c] = fulfilledBy] IN
       [found |-> TRUE,
        doc |-> IF AllConditionsFulfilled(f) /\ f.auto_release
                THEN [f EXCEPT !.status = "released"]   \* this.release()
                ELSE f]

\* fulfillCondition; names: the values of req.body.fulfilled_by, dates: what
\* new Date() may answer
FulfillConditionFrom(s, names, dates) ==
  \/ /\ Receive(s)
     /\ \E u \in Users, e \in EscrowIds, c \in CondIdsIn, ev \in BOOLEAN, by \in names :
          LET r == [NewReq("fulfill", u) EXCEPT !.eid = e, !.cid = c, !.ev = ev,
                                                !.fulfilled_by = by] IN
          /\ IF ~EscrowFound(e) THEN Respond(s, r, 404)
             ELSE IF ~(escrows[e].payee \in UserWalletIds(u)) THEN Respond(s, r, 403)
             ELSE IF escrows[e].status # "active" THEN Respond(s, r, 400)
             ELSE Goto(s, [r EXCEPT !.esc = escrows[e]], "fulfill")
          /\ UNCHANGED <<wallets, escrows, txs, applied, feesCharged, openingTotal, accounts>>
  \/ /\ req[s].op = "fulfill"
     /\ req[s].pc = "fulfill"
     /\ \E date \in dates :
        LET r == req[s]
            f == EscrowFulfill(r.esc, r.cid, r.fulfilled_by, date)
        IN
        /\ IF ~f.found
           THEN /\ Respond(s, r, 500)
                /\ UNCHANGED escrows
           ELSE \* save() writes the condition and, after release(), the status
                /\ escrows' = [escrows EXCEPT
                                 ![r.eid].conds[r.cid] = TRUE,
                                 ![r.eid].fulfilled_at[r.cid] = f.doc.fulfilled_at[r.cid],
                                 ![r.eid].fulfilled_by[r.cid] = f.doc.fulfilled_by[r.cid],
                                 ![r.eid].status =
                                    IF f.doc.status # r.esc.status
                                    THEN f.doc.status ELSE @]
                \* evidence given: condition.evidence is no path of the
                \* schema, so condition.evidence.push throws after the save
                /\ Respond(s, r, IF r.ev THEN 500 ELSE 200)
        /\ UNCHANGED <<wallets, txs, applied, feesCharged, openingTotal, accounts, nreq>>

\* fulfillCondition named by the payee, the clock standing still
FulfillCondition(s) == FulfillConditionFrom(s, {"payee"}, {1})

\* fulfillCondition with any name in fulfilled_by, the clock read as the
\* number of the request
FulfillConditionStamped(s) == FulfillConditionFrom(s, FulfilledByIn, {nreq})

-----------------------------------------------------------------------------
(* createEscrow *)

\* the escrow_hold Transaction: its destination is the escrow,
\* payment_method 'escrow'; status takes the schema default 'pending'
EscrowHoldTx(amount, payer, eid) ==
  NewTx("escrow_hold", "pending", amount, 0, EscrowFee(amount),
        EscrowFee(amount) + 0, amount - (EscrowFee(amount) + 0),
        payer, "wallet", eid, "escrow", eid)

\* the id of the escrow being created: one not yet in the collection
FreshEscrowId == CHOOSE e \in EscrowIds : ~escrows[e].exists

CreateEscrow(s) ==
  LET r == req[s] IN
  CASE r.op = "idle" ->
     /\ Receive(s)
     /\ \E e \in EscrowIds : ~escrows[e].exists
     /\ \E u \in Users, a \in EscrowAmounts, p \in WalletIdsIn, q \in WalletIdsIn,
           au \in BOOLEAN :
          LET n == [NewReq("createEscrow", u) EXCEPT
                      !.amount = a, !.src = p, !.dst = q, !.nconds = 1,
                      !.auto = au, !.eid = FreshEscrowId]
              t == EscrowHoldTx(a, p, FreshEscrowId)
          IN
          IF ~(p \in Wallets /\ q \in Wallets)
          THEN Respond(s, n, 404) /\ UNCHANGED txs
          ELSE IF ~HasSufficientFunds(wallets[p], a, FALSE)
          THEN Respond(s, n, 400) /\ UNCHANGED txs
          ELSE IF ~ValidTransaction(t)
          THEN Respond(s, n, 500) /\ UNCHANGED txs    \* transaction.save() throws
          ELSE /\ txs' = Append(txs, PreSave(t, TRUE))
               /\ Goto(s, [n EXCEPT !.pw = wallets[p], !.tx = PreSave(t, TRUE),
                                    !.txi = Len(txs) + 1], "lock")
     /\ UNCHANGED <<wallets, escrows, applied, feesCharged, openingTotal, accounts>>
  [] r.op = "createEscrow" /\ r.pc = "lock" ->
               LET res == LockFunds(r.pw, r.amount) IN
               /\ IF res.ok
                  THEN /\ wallets' = WriteWallet(wallets, r.src, res)
                       /\ Goto(s, [r EXCEPT !.pw = res.doc], "escrow")
                  ELSE /\ Respond(s, r, 500)
                       /\ UNCHANGED wallets
               /\ UNCHANGED <<escrows, txs, applied, feesCharged, openingTotal, accounts, nreq>>
  [] r.op = "createEscrow" /\ r.pc = "escrow" ->
               LET e == NewEscrow(r.amount, r.src, r.dst, r.nconds, r.auto, r.txi) IN
               /\ ~escrows[r.eid].exists
               /\ escrows' = [escrows EXCEPT ![r.eid] = e]
               /\ Goto(s, [r EXCEPT !.esc = e], "complete")
               /\ UNCHANGED <<wallets, txs, applied, feesCharged, openingTotal, accounts, nreq>>
  [] r.op = "createEscrow" /\ r.pc = "complete" ->
               /\ txs' = [txs EXCEPT ![r.txi].status = "completed"]
               /\ Goto(s, r, "fund")
               /\ UNCHANGED <<wallets, escrows, applied, feesCharged, openingTotal, accounts, nreq>>
  [] r.op = "createEscrow" /\ r.pc = "fund" ->
               /\ escrows' = [escrows EXCEPT ![r.eid].status = "funded"]
               /\ Goto(s, [r EXCEPT !.esc.status = "funded"], "activate")
               /\ UNCHANGED <<wallets, txs, applied, feesCharged, openingTotal, accounts, nreq>>
  [] r.op = "createEscrow" /\ r.pc = "activate" ->
               /\ escrows' = [escrows EXCEPT ![r.eid].status = "active"]
               /\ Respond(s, [r EXCEPT !.esc.status = "active"], 201)
               /\ UNCHANGED <<wallets, txs, applied, feesCharged, openingTotal, accounts, nreq>>
  [] OTHER -> FALSE

-----------------------------------------------------------------------------
(* transferFunds *)

\* Wallet.findOne({ owner_id, currency }): the caller's wallet
SourceWalletOf(u) == CHOOSE w \in Wallets : WalletOwner(w) = u

\* the caller has a wallet of the currency asked for (currency || 'KES', the
\* request naming none)
HasSourceWallet(u) == \E w \in UserWalletIds(u) : wallets[w].currency = "KES"

\* the transfer Transaction, of type 'wallet_transfer'
TransferTx(amount, src, dst) ==
  NewTx("wallet_transfer", "completed", amount + TransferFee(amount), 0,
        TransferFee(amount), TransferFee(amount), amount,
        src, "wallet", dst, "wallet", "none")

TransferFunds(s) ==
  \/ /\ Receive(s)
     /\ \E u \in Users, a \in TransferAmounts, q \in WalletIdsIn :
          LET r == [NewReq("transfer", u) EXCEPT
                      !.amount = a, !.src = SourceWalletOf(u), !.dst = q] IN
          /\ IF ~HasSourceWallet(u) THEN Respond(s, r, 404)
             ELSE Goto(s, [r EXCEPT !.pw = wallets[SourceWalletOf(u)]], "recipient")
     /\ UNCHANGED <<wallets, escrows, txs, applied, feesCharged, openingTotal, accounts>>
  \/ /\ req[s].op = "transfer"
     /\ LET r == req[s]
            t == TransferTx(r.amount, r.src, r.dst)
        IN
        CASE r.pc = "recipient" ->
               /\ IF ~(r.dst \in Wallets)
                  THEN Respond(s, r, 404) /\ UNCHANGED txs
                  ELSE IF r.pw.currency # wallets[r.dst].currency
                  THEN Respond(s, r, 400) /\ UNCHANGED txs
                  ELSE IF ~HasSufficientFunds(r.pw, r.amount, FALSE)
                  THEN Respond(s, r, 400) /\ UNCHANGED txs
                  ELSE IF ~ValidTransaction(t)
                  THEN Respond(s, r, 500) /\ UNCHANGED txs
                  ELSE /\ txs' = Append(txs, PreSave(t, TRUE))
                       /\ Goto(s, [r EXCEPT !.qw = wallets[r.dst],
                                            !.tx = PreSave(t, TRUE)], "deduct")
               /\ UNCHANGED <<wallets, escrows, applied, feesCharged, openingTotal, accounts, nreq>>
          [] r.pc = "deduct" ->
               LET res == DeductFunds(r.pw, r.tx.amount) IN
               /\ IF res.ok
                  THEN /\ wallets' = WriteWallet(wallets, r.src, res)
                       /\ Goto(s, [r EXCEPT !.pw = res.doc], "credit")
                  ELSE /\ Respond(s, r, 500)
                       /\ UNCHANGED wallets
               /\ UNCHANGED <<escrows, txs, applied, feesCharged, openingTotal, accounts, nreq>>
          [] r.pc = "credit" ->
               \* recipientWallet.addFunds: the store takes the save or rejects it
               \E stored \in BOOLEAN :
               LET res == IF stored THEN AddFunds(r.qw, r.amount)
                                    ELSE Threw(r.qw) IN
               /\ IF res.ok
                  THEN /\ wallets' = WriteWallet(wallets, r.dst, res)
                       /\ feesCharged' = feesCharged + r.tx.total_fee
                       /\ Respond(s, r, 201)
                  ELSE /\ Respond(s, r, 500)
                       /\ UNCHANGED <<wallets, feesCharged>>
               /\ UNCHANGED <<escrows, txs, applied, openingTotal, accounts, nreq>>

-----------------------------------------------------------------------------
(* fundWallet, withdrawFromWallet *)

\* 1.5% funding / withdrawal / M-Pesa payout fee; exact for multiples of 200
ProcessingFee(amount) == (amount * 15) \div 1000

FundingTx(amount, w, method) ==
  NewTx("wallet_funding", "pending", amount + ProcessingFee(amount),
        ProcessingFee(amount), 0, ProcessingFee(amount), amount,
        "none", method, w, "wallet", "none")

FundWallet(s) ==
  LET r == req[s] IN
  CASE r.op = "idle" ->
     /\ Receive(s)
     /\ \E u \in Users, w \in WalletIdsIn, a \in PayoutAmounts, m \in {"card", "bank"} :
          LET n == [NewReq("fund", u) EXCEPT !.amount = a, !.dst = w, !.method = m]
              t == FundingTx(a, w, m)
          IN
          IF ~(w \in UserWalletIds(u))
          THEN Respond(s, n, 404) /\ UNCHANGED txs
          ELSE IF ~ValidTransaction(t)
          THEN Respond(s, n, 500) /\ UNCHANGED txs    \* transaction.save() throws
          ELSE /\ txs' = Append(txs, PreSave(t, TRUE))
               /\ Goto(s, [n EXCEPT !.qw = wallets[w], !.tx = PreSave(t, TRUE),
                                    !.txi = Len(txs) + 1], "pay")
     /\ UNCHANGED <<wallets, escrows, applied, feesCharged, openingTotal, accounts>>
  [] r.op = "fund" /\ r.pc = "pay" ->
     \* card: the mock answers completed and the wallet is credited;
     \* bank: the mock answers pending
     LET res == AddFunds(r.qw, r.amount) IN
     /\ IF r.method = "card"
        THEN IF res.ok
             THEN /\ wallets' = WriteWallet(wallets, r.dst, res)
                  /\ Goto(s, [r EXCEPT !.tx.status = "completed"], "update")
             ELSE Respond(s, r, 500) /\ UNCHANGED wallets
        ELSE /\ Goto(s, [r EXCEPT !.tx.status = "processing"], "update")
             /\ UNCHANGED wallets
     /\ UNCHANGED <<escrows, txs, applied, feesCharged, openingTotal, accounts, nreq>>
  [] r.op = "fund" /\ r.pc = "update" ->
     /\ txs' = [txs EXCEPT ![r.txi].status = r.tx.status]
     /\ Respond(s, r, 201)
     /\ UNCHANGED <<wallets, escrows, applied, feesCharged, openingTotal, accounts, nreq>>
  [] OTHER -> FALSE

WithdrawalTx(amount, w, method) ==
  NewTx("wallet_withdrawal", "pending", amount + ProcessingFee(amount),
        ProcessingFee(amount), 0, ProcessingFee(amount), amount,
        w, "wallet", "none", method, "none")

WithdrawFromWallet(s) ==
  LET r == req[s] IN
  CASE r.op = "idle" ->
     /\ Receive(s)
     /\ \E u \in Users, w \in WalletIdsIn, a \in PayoutAmounts, m \in {"mpesa", "bank"} :
          LET n == [NewReq("withdraw", u) EXCEPT !.amount = a, !.src = w, !.method = m]
              t == WithdrawalTx(a, w, m)
          IN
          IF ~(w \in UserWalletIds(u))
          THEN Respond(s, n, 404) /\ UNCHANGED txs
          ELSE IF ~HasSufficientFunds(wallets[w], a, FALSE)
          THEN Respond(s, n, 400) /\ UNCHANGED txs
          ELSE IF ~ValidTransaction(t)
          THEN Respond(s, n, 500) /\ UNCHANGED txs    \* transaction.save() throws
          ELSE /\ txs' = Append(txs, PreSave(t, TRUE))
               /\ Goto(s, [n EXCEPT !.pw = wallets[w], !.tx = PreSave(t, TRUE),
                                    !.txi = Len(txs) + 1], "deduct")
     /\ UNCHANGED <<wallets, escrows, applied, feesCharged, openingTotal, accounts>>
  [] r.op = "withdraw" /\ r.pc = "deduct" ->
     LET res == DeductFunds(r.pw, r.tx.amount) IN
     /\ IF res.ok
        THEN /\ wallets' = WriteWallet(wallets, r.src, res)
             /\ Goto(s, [r EXCEPT !.pw = res.doc, !.tx.status = "processing"], "update")
        ELSE Respond(s, r, 500) /\ UNCHANGED wallets
     /\ UNCHANGED <<escrows, txs, applied, feesCharged, openingTotal, accounts, nreq>>
  [] r.op = "withdraw" /\ r.pc = "update" ->
     /\ txs' = [txs EXCEPT ![r.txi].status = r.tx.status]
     /\ Respond(s, r, 201)
     /\ UNCHANGED <<wallets, escrows, applied, feesCharged, openingTotal, accounts, nreq>>
  [] OTHER -> FALSE

-----------------------------------------------------------------------------
(* WebhookService.sendWebhook *)

\* this.maxRetries
MaxRetries == 3

\* this.retryDelays, in milliseconds
RetryDelays == <<5000, 15000, 45000>>

\* the events sendWebhook is called with
WebhookEventsIn == {"escrow.released", "payout.completed"}

DeliveredZeroBased(attempt) ==
  [success |-> TRUE, attempt |-> attempt, threw |-> FALSE]

\* return { success: true, webhookId, attempt: attempt + 1, ... }
Delivered(attempt) ==
  [success |-> TRUE, attempt |-> attempt + 1, threw |-> FALSE]

\* return { success: false, webhookId, totalAttempts: attempt, error }
GaveUp(attempt) ==
  [success |-> FALSE, totalAttempts |-> attempt, threw |-> FALSE]

WaitsAfterEveryFailure(attempt) == TRUE

\* if (attempt < this.maxRetries) await new Promise(... setTimeout ...)
WaitsBeforeRetry(attempt) == attempt < MaxRetries

\* while (attempt < this.maxRetries) { ... }, then the failure result
WebhookLoop(s, r, code) ==
  IF r.attempt < MaxRetries THEN Goto(s, r, "post")
  ELSE Respond(s, [r EXCEPT !.out = GaveUp(r.attempt)], code)

\* one step of sendWebhook: an axios.post that the endpoint answers or not
\* (replies keeps what the endpoint did, posts counts the calls), or the
\* sleep before the next attempt (waits keeps the delays slept)
SendWebhookStep(s, r, code) ==
  CASE r.pc = "post" ->
         \E delivered \in BOOLEAN :
           LET p == [r EXCEPT !.posts = @ + 1, !.replies = Append(@, delivered)]
               q == [p EXCEPT !.attempt = @ + 1]
           IN IF delivered
              THEN Respond(s, [p EXCEPT !.out = Delivered(p.attempt)], code)
              ELSE IF WaitsBeforeRetry(q.attempt) THEN Goto(s, q, "sleep")
              ELSE WebhookLoop(s, q, code)
    [] r.pc = "sleep" ->
         WebhookLoop(s, [r EXCEPT !.waits = Append(@, RetryDelays[r.attempt])], code)
    [] OTHER -> FALSE

\* sendWebhook(url, payload) is called: attempt = 0, lastError = null
SendWebhookCall(s) ==
  /\ Receive(s)
  /\ \E ev \in WebhookEventsIn :
       WebhookLoop(s, [NewReq("sendWebhook", "none") EXCEPT !.method = ev], 200)
  /\ UNCHANGED <<wallets, escrows, txs, applied, feesCharged, openingTotal, accounts>>

\* sendWebhook goes on after an await
SendWebhookRun(s) ==
  /\ req[s].op = "sendWebhook"
  /\ SendWebhookStep(s, req[s], 200)
  /\ UNCHANGED <<wallets, escrows, txs, applied, feesCharged, openingTotal, accounts, nreq>>

SendWebhook(s) == SendWebhookCall(s) \/ SendWebhookRun(s)

\* the webhook block of a handler, entered after its saves:
\* if (transaction.metadata.webhook_url) { try { await
\* webhookService.sendTransactionWebhook(transaction, event) } catch ... };
\* without a webhook_url the handler answers at once
Notify(s, r, code) ==
  IF r.tx.webhook_url THEN WebhookLoop(s, r, code) ELSE Respond(s, r, code)

\* what a call of the webhook service that throws leaves as its result
Thrown == [success |-> FALSE, totalAttempts |-> 0, threw |-> TRUE]

NotifyStepUndoing(s, r, code) ==
  /\ \E threw \in BOOLEAN :
       IF threw THEN Respond(s, [r EXCEPT !.out = Thrown], code)
       ELSE SendWebhookStep(s, r, code)
  /\ txs' = IF req'[s].op = "idle" /\ ~done'.out.success
            THEN [txs EXCEPT ![r.txi].status = "failed"] ELSE txs
  /\ UNCHANGED <<wallets, escrows>>

\* the handler awaits the delivery: sendWebhook goes on, or the call throws
\* and catch (webhookError) logs it; then the handler answers as it would
NotifyStep(s, r, code) ==
  /\ \E threw \in BOOLEAN :
       IF threw THEN Respond(s, [r EXCEPT !.out = Thrown], code)
       ELSE SendWebhookStep(s, r, code)
  /\ UNCHANGED <<wallets, escrows, txs>>

-----------------------------------------------------------------------------
(* createPayout *)

\* a routing whose M-Pesa threshold excludes 250000
SelectPaymentRailStrict(type, amount, currency) ==
  IF type = "wallet" THEN [rail |-> "internal", fee |-> 0, instant |-> TRUE]
  ELSE IF type = "mpesa"
       THEN (IF amount < 250000
             THEN [rail |-> "mpesa_b2c", fee |-> (amount * 15) \div 1000, instant |-> TRUE]
             ELSE [rail |-> "mpesa_corporate", fee |-> 100, instant |-> FALSE])
  ELSE IF type = "bank"
       THEN (IF currency = "KES" /\ amount < 999999
             THEN [rail |-> "pesalink", fee |-> 50, instant |-> TRUE]
             ELSE [rail |-> "rtgs", fee |-> 150, instant |-> FALSE])
  ELSE [rail |-> "unknown", fee |-> 0, instant |-> FALSE]

\* selectPaymentRail(destination, amount, currency); amount * 0.015 is exact
\* for the model's amounts, which are multiples of 200 where it is computed
SelectPaymentRail(type, amount, currency) ==
  IF type = "wallet" THEN [rail |-> "internal", fee |-> 0, instant |-> TRUE]
  ELSE IF type = "mpesa"
       THEN (IF amount <= 250000
             THEN [rail |-> "mpesa_b2c", fee |-> (amount * 15) \div 1000, instant |-> TRUE]
             ELSE [rail |-> "mpesa_corporate", fee |-> 100, instant |-> FALSE])
  ELSE IF type = "bank"
       THEN (IF currency = "KES" /\ amount < 999999
             THEN [rail |-> "pesalink", fee |-> 50, instant |-> TRUE]
             ELSE [rail |-> "rtgs", fee |-> 150, instant |-> FALSE])
  ELSE [rail |-> "unknown", fee |-> 0, instant |-> FALSE]

\* const routing = selectPaymentRail(destination, amount, currency), as
\* createPayout calls it
SelectRail(s) ==
  /\ Receive(s)
  /\ \E t \in DestinationTypesIn, a \in RailAmounts, c \in CurrenciesIn :
       Respond(s, [NewReq("selectPaymentRail", "none") EXCEPT
                     !.method = t, !.amount = a, !.currency = c,
                     !.out = SelectPaymentRail(t, a, c)], 200)
  /\ UNCHANGED <<wallets, escrows, txs, applied, feesCharged, openingTotal, accounts>>

\* selectPaymentRail(destination, amount, 'KES').fee
SelectPaymentRailFee(method, amount) ==
  IF method = "wallet" THEN 0
  ELSE IF method = "mpesa"
       THEN (IF amount <= 250000 THEN ProcessingFee(amount) ELSE 100)
  ELSE IF method = "bank"
       THEN (IF amount < 999999 THEN 50 ELSE 150)
  ELSE 0

PayoutTx(amount, src, method) ==
  NewTx("payout", "pending", amount + SelectPaymentRailFee(method, amount),
        SelectPaymentRailFee(method, amount), 0,
        SelectPaymentRailFee(method, amount),
        amount - SelectPaymentRailFee(method, amount),
        src, "wallet", "none", method, "none")

\* the status processMpesaPayout / processBankPayout / processWalletPayout
\* return when they do not throw
PayoutStatus(method) ==
  IF method = "wallet" THEN "completed"
  ELSE IF method = "mpesa" THEN "pending" ELSE "processing"

\* createPayout; urls: whether the requests carry a webhook_url
CreatePayoutFrom(s, urls) ==
  \/ /\ Receive(s)
     /\ \E u \in Users, w \in WalletIdsIn, m \in PayoutMethodsIn, d \in WalletIdsIn,
           a \in PayoutAmounts, url \in urls :
          LET n == [NewReq("payout", u) EXCEPT
                      !.amount = a, !.src = w, !.dst = d, !.method = m]
              t == [PayoutTx(a, w, m) EXCEPT !.webhook_url = url]
          IN
          IF ~(m \in {"mpesa", "bank", "wallet"})
          THEN Respond(s, n, 400) /\ UNCHANGED txs
          ELSE IF ~(w \in UserWalletIds(u))
          THEN Respond(s, n, 404) /\ UNCHANGED txs
          ELSE IF ~HasSufficientFunds(wallets[w], t.amount, FALSE)
          THEN Respond(s, n, 400) /\ UNCHANGED txs
          ELSE IF ~ValidTransaction(t)
          THEN Respond(s, n, 500) /\ UNCHANGED txs
          ELSE /\ txs' = Append(txs, PreSave(t, TRUE))
               \* netAmount = amount - fees is the figure the answer returns
               /\ Goto(s, [n EXCEPT !.pw = wallets[w], !.tx = PreSave(t, TRUE),
                                    !.txi = Len(txs) + 1,
                                    !.net_amount = a - SelectPaymentRailFee(m, a)],
                         "deduct")
     /\ UNCHANGED <<wallets, escrows, applied, feesCharged, openingTotal, accounts>>
  \/ /\ req[s].op = "payout"
     /\ LET r == req[s] IN
        CASE r.pc = "deduct" ->
               LET res == DeductFunds(r.pw, r.tx.amount) IN
               /\ IF res.ok
                  THEN /\ wallets' = WriteWallet(wallets, r.src, res)
                       /\ Goto(s, [r EXCEPT !.pw = res.doc], "provider")
                  ELSE Respond(s, r, 500) /\ UNCHANGED wallets
               /\ UNCHANGED <<escrows, txs, applied, feesCharged, openingTotal, accounts, nreq>>
          [] r.pc = "provider" ->
               \* wallet: Wallet.findOne of the destination; mpesa, bank: the
               \* provider accepts the request or the call throws; each is
               \* called with amount: netAmount
               /\ IF r.method = "wallet"
                  THEN IF r.dst \in Wallets
                       THEN Goto(s, [r EXCEPT !.qw = wallets[r.dst],
                                              !.handed = r.net_amount], "destsave")
                       ELSE Goto(s, [r EXCEPT !.handed = r.net_amount], "fail")
                  ELSE \E accepted \in BOOLEAN :
                         IF accepted
                         THEN Goto(s, [r EXCEPT !.tx.status = PayoutStatus(r.method),
                                                !.handed = r.net_amount], "update")
                         ELSE Goto(s, [r EXCEPT !.handed = r.net_amount], "fail")
               /\ UNCHANGED <<wallets, escrows, txs, applied, feesCharged,
                              openingTotal, accounts, nreq>>
          [] r.pc = "destsave" ->
               \* balances.available += amount; save()
               LET res == Saved([r.qw EXCEPT !.available = @ + r.handed],
                                {"available"}) IN
               /\ IF res.ok
                  THEN /\ wallets' = WriteWallet(wallets, r.dst, res)
                       /\ Goto(s, [r EXCEPT !.tx.status = PayoutStatus(r.method)],
                               "update")
                  ELSE Goto(s, r, "fail") /\ UNCHANGED wallets
               /\ UNCHANGED <<escrows, txs, applied, feesCharged, openingTotal, accounts, nreq>>
          [] r.pc = "update" ->
               \* if (webhook_url && transaction.status === 'completed')
               /\ txs' = [txs EXCEPT ![r.txi].status = r.tx.status]
               /\ IF r.tx.status = "completed" THEN Notify(s, r, 201)
                  ELSE Respond(s, r, 201)
               /\ UNCHANGED <<wallets, escrows, applied, feesCharged, openingTotal, accounts, nreq>>
          [] r.pc \in {"post", "sleep"} ->
               /\ NotifyStep(s, r, 201)
               /\ UNCHANGED <<applied, feesCharged, openingTotal, accounts, nreq>>
          [] r.pc = "fail" ->
               /\ txs' = [txs EXCEPT ![r.txi].status = "failed"]
               /\ Goto(s, [r EXCEPT !.tx.status = "failed"], "refund")
               /\ UNCHANGED <<wallets, escrows, applied, feesCharged, openingTotal, accounts, nreq>>
          [] r.pc = "refund" ->
               LET res == AddFunds(r.pw, r.tx.amount) IN
               /\ IF res.ok
                  THEN wallets' = WriteWallet(wallets, r.src, res) /\ Respond(s, r, 400)
                  ELSE Respond(s, r, 500) /\ UNCHANGED wallets
               /\ UNCHANGED <<escrows, txs, applied, feesCharged, openingTotal, accounts, nreq>>

\* createPayout without a webhook_url
CreatePayout(s) == CreatePayoutFrom(s, {FALSE})

\* createPayout with a webhook_url
CreatePayoutNotified(s) == CreatePayoutFrom(s, {TRUE})

-----------------------------------------------------------------------------
(* cancelPayout and the provider callbacks *)

\* Transaction.findOne by id, type and status
TxFound(i, types, statuses) ==
  /\ i <= Len(txs)
  /\ txs[i].type \in types
  /\ txs[i].status \in statuses

\* the refund of a payout to its source wallet, shared by the handlers below:
\* Wallet.findOne({ wallet_id: transaction.source.wallet_id }), then addFunds
RefundSource(s, r, after, code) ==
  CASE r.pc = "wallet" ->
         /\ IF r.tx.src_wallet \in Wallets
            THEN Goto(s, [r EXCEPT !.pw = wallets[r.tx.src_wallet]], "refund")
            ELSE IF after = "end" THEN Respond(s, r, code) ELSE Goto(s, r, after)
         /\ UNCHANGED <<wallets, escrows, txs, applied, feesCharged, openingTotal, accounts, nreq>>
    [] r.pc = "refund" ->
         LET res == AddFunds(r.pw, r.tx.amount) IN
         /\ IF res.ok
            THEN /\ wallets' = WriteWallet(wallets, r.tx.src_wallet, res)
                 /\ IF after = "end" THEN Respond(s, r, code) ELSE Goto(s, r, after)
            ELSE Respond(s, r, 500) /\ UNCHANGED wallets
         /\ UNCHANGED <<escrows, txs, applied, feesCharged, openingTotal, accounts, nreq>>
    [] OTHER -> FALSE

CancelPayout(s) ==
  \/ /\ Receive(s)
     \* 'metadata.user_id' is not a path of the Transaction schema: the filter
     \* keeps it (nothing matches) or drops it, depending on strictQuery
     /\ \E u \in Users, i \in TxIdsIn, strictQuery \in BOOLEAN :
          LET r == [NewReq("cancelPayout", u) EXCEPT !.txi = i] IN
          IF ~(strictQuery /\ TxFound(i, {"payout"}, TxStatuses))
          THEN Respond(s, r, 404)
          ELSE IF ~(txs[i].status \in {"pending", "processing"})
          THEN Respond(s, r, 400)
          ELSE Goto(s, [r EXCEPT !.tx = txs[i]], "cancel")
     /\ UNCHANGED <<wallets, escrows, txs, applied, feesCharged, openingTotal, accounts>>
  \/ /\ req[s].op = "cancelPayout"
     /\ LET r == req[s] IN
        IF r.pc = "cancel"
        THEN /\ txs' = [txs EXCEPT ![r.txi].status = "cancelled"]
             /\ Goto(s, [r EXCEPT !.tx.status = "cancelled"], "wallet")
             /\ UNCHANGED <<wallets, escrows, applied, feesCharged, openingTotal, accounts, nreq>>
        ELSE RefundSource(s, r, "end", 200)

MpesaB2CResult(s) ==
  \/ /\ Receive(s)
     /\ \E i \in TxIdsIn, success \in BOOLEAN :
          LET r == [NewReq("b2cResult", "none") EXCEPT !.txi = i, !.flag = success] IN
          IF ~TxFound(i, {"payout"}, {"pending", "processing"})
          THEN Respond(s, r, 200)
          ELSE IF success
          THEN Goto(s, [r EXCEPT !.tx = [txs[i] EXCEPT !.status = "completed"]], "save")
          ELSE Goto(s, [r EXCEPT !.tx = [txs[i] EXCEPT !.status = "failed"]], "wallet")
     /\ UNCHANGED <<wallets, escrows, txs, applied, feesCharged, openingTotal, accounts>>
  \/ /\ req[s].op = "b2cResult"
     /\ LET r == req[s] IN
        IF r.pc = "save"
        THEN /\ txs' = [txs EXCEPT ![r.txi].status = r.tx.status]
             /\ Notify(s, r, 200)
             /\ UNCHANGED <<wallets, escrows, applied, feesCharged, openingTotal, accounts, nreq>>
        ELSE IF r.pc \in {"post", "sleep"}
        THEN /\ NotifyStep(s, r, 200)
             /\ UNCHANGED <<applied, feesCharged, openingTotal, accounts, nreq>>
        ELSE RefundSource(s, r, "save", 200)

MpesaB2CTimeout(s) ==
  \/ /\ Receive(s)
     /\ \E i \in TxIdsIn :
          LET r == [NewReq("b2cTimeout", "none") EXCEPT !.txi = i] IN
          IF ~TxFound(i, {"payout"}, {"pending", "processing"})
          THEN Respond(s, r, 200)
          ELSE Goto(s, [r EXCEPT !.tx = txs[i]], "fail")
     /\ UNCHANGED <<wallets, escrows, txs, applied, feesCharged, openingTotal, accounts>>
  \/ /\ req[s].op = "b2cTimeout"
     /\ LET r == req[s] IN
        IF r.pc = "fail"
        THEN /\ txs' = [txs EXCEPT ![r.txi].status = "failed"]
             /\ Goto(s, [r EXCEPT !.tx.status = "failed"], "wallet")
             /\ UNCHANGED <<wallets, escrows, applied, feesCharged, openingTotal, accounts, nreq>>
        ELSE RefundSource(s, r, "end", 200)

BankConfirmation(s) ==
  \/ /\ Receive(s)
     /\ \E i \in TxIdsIn, completed \in BOOLEAN :
          LET r == [NewReq("bankConfirmation", "none") EXCEPT
                      !.txi = i, !.flag = completed] IN
          IF ~TxFound(i, TxTypes, {"pending", "processing"})
          THEN Respond(s, r, 404)
          ELSE IF ~completed
          THEN Goto(s, [r EXCEPT !.tx = [txs[i] EXCEPT !.status = "failed"]], "save")
          ELSE IF txs[i].dst_wallet \in Wallets
          THEN Goto(s, [r EXCEPT !.tx = [txs[i] EXCEPT !.status = "completed"],
                                 !.qw = wallets[txs[i].dst_wallet]], "credit")
          ELSE Goto(s, [r EXCEPT !.tx = [txs[i] EXCEPT !.status = "completed"]], "save")
     /\ UNCHANGED <<wallets, escrows, txs, applied, feesCharged, openingTotal, accounts>>
  \/ /\ req[s].op = "bankConfirmation"
     /\ LET r == req[s] IN
        CASE r.pc = "credit" ->
               LET res == AddFunds(r.qw, r.tx.net_amount) IN
               /\ IF res.ok
                  THEN /\ wallets' = WriteWallet(wallets, r.tx.dst_wallet, res)
                       /\ Goto(s, r, "save")
                  ELSE Respond(s, r, 500) /\ UNCHANGED wallets
               /\ UNCHANGED <<escrows, txs, applied, feesCharged, openingTotal, accounts, nreq>>
          [] r.pc = "save" ->
               /\ txs' = [txs EXCEPT ![r.txi].status = r.tx.status]
               /\ Respond(s, r, 200)
               /\ UNCHANGED <<wallets, escrows, applied, feesCharged, openingTotal, accounts, nreq>>

-----------------------------------------------------------------------------
(* retryPayout *)

\* a retry check that never refuses
RetryLimitSkipped(tx) == TRUE

\* if (transaction.processing.retry_count >= 3) -> 400
RetryLimitOk(tx) == ~(tx.retry_count >= 3)

\* scheduleRetry(): retry_count += 1, next_retry_at = now + 5 min, save();
\* the status is not touched
ScheduleRetry(tx) ==
  [tx EXCEPT !.retry_count = @ + 1, !.next_retry_at = TRUE]

RetryPayout(s) ==
  \/ /\ Receive(s)
     \* the same 'metadata.user_id' filter as cancelPayout
     /\ \E u \in Users, i \in TxIdsIn, strictQuery \in BOOLEAN :
          LET r == [NewReq("retryPayout", u) EXCEPT !.txi = i] IN
          IF ~(strictQuery /\ TxFound(i, {"payout"}, TxStatuses))
          THEN Respond(s, r, 404)
          ELSE IF txs[i].status # "failed"
          THEN Respond(s, r, 400)
          ELSE IF ~RetryLimitOk(txs[i])
          THEN Respond(s, r, 400)
          ELSE Goto(s, [r EXCEPT !.tx = ScheduleRetry(txs[i])], "schedule")
     /\ UNCHANGED <<wallets, escrows, txs, applied, feesCharged, openingTotal, accounts>>
  \/ /\ req[s].op = "retryPayout"
     /\ req[s].pc = "schedule"
     /\ LET r == req[s] IN
        /\ txs' = [txs EXCEPT ![r.txi].retry_count = r.tx.retry_count,
                              ![r.txi].next_retry_at = r.tx.next_retry_at]
        /\ Respond(s, r, 200)
     /\ UNCHANGED <<wallets, escrows, applied, feesCharged, openingTotal, accounts, nreq>>

-----------------------------------------------------------------------------
(* collections *)

\* 2.5% collection fee; exact for multiples of 200
CollectionFee(amount) == (amount * 25) \div 1000

CollectionTx(amount, method) ==
  NewTx("collection", "pending", amount, CollectionFee(amount), 0,
        CollectionFee(amount) + 0, amount - (CollectionFee(amount) + 0),
        "none", method, "none", "none", "none")

\* the outcomes of processMpesaPayment / processCardPayment /
\* processBankPayment as createCollection calls them: the STK push answers
\* 'pending' or throws, createPaymentIntent throws (no currency is passed),
\* initiateTransfer answers 'pending', any other method is unsupported
CollectionResponses(method) ==
  IF method = "mpesa" THEN {"pending", "throws"}
  ELSE IF method = "bank" THEN {"pending"}
  ELSE {"throws"}

CreateCollection(s) ==
  \/ /\ Receive(s)
     /\ \E u \in Users, a \in CollectionAmounts, m \in CollectionMethodsIn :
          LET n == [NewReq("createCollection", u) EXCEPT !.amount = a, !.method = m]
              t == CollectionTx(a, m)
          IN
          IF ~ValidTransaction(t)
          THEN Respond(s, n, 500) /\ UNCHANGED txs
          ELSE /\ txs' = Append(txs, PreSave(t, TRUE))
               /\ Goto(s, [n EXCEPT !.tx = PreSave(t, TRUE), !.txi = Len(txs) + 1],
                       "provider")
     /\ UNCHANGED <<wallets, escrows, applied, feesCharged, openingTotal, accounts>>
  \/ /\ req[s].op = "createCollection"
     /\ LET r == req[s] IN
        CASE r.pc = "provider" ->
               /\ \E resp \in CollectionResponses(r.method) :
                    IF resp = "throws"
                    THEN Goto(s, [r EXCEPT !.tx.status = "failed"], "fail")
                    ELSE IF resp = "completed"
                    THEN Goto(s, [r EXCEPT !.tx.status = resp], "wallet")
                    ELSE Goto(s, [r EXCEPT !.tx.status = resp], "update")
               /\ UNCHANGED <<wallets, escrows, txs, applied, feesCharged,
                              openingTotal, accounts, nreq>>
          [] r.pc = "wallet" ->
               \* findOrCreateWallet(userId, 'user')
               /\ Goto(s, [r EXCEPT !.qw = wallets[WalletOwnedBy(r.user)],
                                    !.dst = WalletOwnedBy(r.user)], "credit")
               /\ UNCHANGED <<wallets, escrows, txs, applied, feesCharged,
                              openingTotal, accounts, nreq>>
          [] r.pc = "credit" ->
               LET res == AddFunds(r.qw, r.tx.net_amount) IN
               /\ IF res.ok
                  THEN wallets' = WriteWallet(wallets, r.dst, res) /\ Goto(s, r, "update")
                  ELSE Goto(s, [r EXCEPT !.tx.status = "failed"], "fail")
                       /\ UNCHANGED wallets
               /\ UNCHANGED <<escrows, txs, applied, feesCharged, openingTotal, accounts, nreq>>
          [] r.pc = "update" ->
               /\ txs' = [txs EXCEPT ![r.txi].status = r.tx.status]
               /\ Respond(s, r, 201)
               /\ UNCHANGED <<wallets, escrows, applied, feesCharged, openingTotal, accounts, nreq>>
          [] r.pc = "fail" ->
               /\ txs' = [txs EXCEPT ![r.txi].status = "failed"]
               /\ Respond(s, r, 400)
               /\ UNCHANGED <<wallets, escrows, applied, feesCharged, openingTotal, accounts, nreq>>
          [] OTHER -> FALSE

\* checkPaymentStatus(transaction).status: the STK query answers completed,
\* pending or failed; a query that throws, and an unsupported method, count as
\* failed; the card and bank queries answer completed
CheckPaymentStatus(tx) ==
  IF tx.src_method = "mpesa" THEN {"completed", "pending", "failed"}
  ELSE IF tx.src_method \in {"card", "bank"} THEN {"completed"}
  ELSE {"failed"}

VerifyCollection(s) ==
  \/ /\ Receive(s)
     /\ \E u \in Users, i \in TxIdsIn, strictQuery \in BOOLEAN :
          LET r == [NewReq("verifyCollection", u) EXCEPT !.txi = i] IN
          IF ~(strictQuery /\ TxFound(i, {"collection"}, TxStatuses))
          THEN Respond(s, r, 404)
          ELSE \E st \in CheckPaymentStatus(txs[i]) :
                 IF st # txs[i].status
                 THEN Goto(s, [r EXCEPT !.tx = [txs[i] EXCEPT !.status = st]], "save")
                 ELSE Respond(s, [r EXCEPT !.tx = txs[i]], 200)
     /\ UNCHANGED <<wallets, escrows, txs, applied, feesCharged, openingTotal, accounts>>
  \/ /\ req[s].op = "verifyCollection"
     /\ req[s].pc = "save"
     /\ LET r == req[s] IN
        /\ txs' = [txs EXCEPT ![r.txi].status = r.tx.status]
        /\ Respond(s, r, 200)
     /\ UNCHANGED <<wallets, escrows, applied, feesCharged, openingTotal, accounts, nreq>>

CancelCollection(s) ==
  \/ /\ Receive(s)
     /\ \E u \in Users, i \in TxIdsIn, strictQuery \in BOOLEAN :
          LET r == [NewReq("cancelCollection", u) EXCEPT !.txi = i] IN
          IF ~(strictQuery /\ TxFound(i, {"collection"}, TxStatuses))
          THEN Respond(s, r, 404)
          ELSE IF txs[i].status = "completed"
          THEN Respond(s, r, 400)
          ELSE IF txs[i].status = "cancelled"
          THEN Respond(s, r, 400)
          ELSE Goto(s, [r EXCEPT !.tx = [txs[i] EXCEPT !.status = "cancelled"]], "cancel")
     /\ UNCHANGED <<wallets, escrows, txs, applied, feesCharged, openingTotal, accounts>>
  \/ /\ req[s].op = "cancelCollection"
     /\ req[s].pc = "cancel"
     /\ LET r == req[s] IN
        /\ txs' = [txs EXCEPT ![r.txi].status = r.tx.status]
        /\ Respond(s, r, 200)
     /\ UNCHANGED <<wallets, escrows, applied, feesCharged, openingTotal, accounts, nreq>>

MpesaC2BConfirmation(s) ==
  \/ /\ Receive(s)
     /\ \E i \in TxIdsIn :
          LET r == [NewReq("c2bConfirmation", "none") EXCEPT !.txi = i] IN
          IF ~TxFound(i, {"collection"}, {"pending"})
          THEN Respond(s, r, 200)
          ELSE Goto(s, [r EXCEPT !.tx = [txs[i] EXCEPT !.status = "completed"]], "save")
     /\ UNCHANGED <<wallets, escrows, txs, applied, feesCharged, openingTotal, accounts>>
  \/ /\ req[s].op = "c2bConfirmation"
     /\ LET r == req[s] IN
        CASE r.pc = "save" ->
               /\ txs' = [txs EXCEPT ![r.txi].status = r.tx.status]
               /\ IF r.tx.dst_wallet \in Wallets
                  THEN Goto(s, [r EXCEPT !.qw = wallets[r.tx.dst_wallet]], "credit")
                  ELSE Notify(s, r, 200)
               /\ UNCHANGED <<wallets, escrows, applied, feesCharged, openingTotal, accounts, nreq>>
          [] r.pc = "credit" ->
               LET res == AddFunds(r.qw, r.tx.net_amount) IN
               /\ IF res.ok
                  THEN wallets' = WriteWallet(wallets, r.tx.dst_wallet, res)
                       /\ Notify(s, r, 200)
                  ELSE Respond(s, r, 200) /\ UNCHANGED wallets
               /\ UNCHANGED <<escrows, txs, applied, feesCharged, openingTotal, accounts, nreq>>
          [] r.pc \in {"post", "sleep"} ->
               /\ NotifyStep(s, r, 200)
               /\ UNCHANGED <<applied, feesCharged, openingTotal, accounts, nreq>>
          [] OTHER -> FALSE

-----------------------------------------------------------------------------
(* the ledger primitives called on a stored wallet *)

\* wallet = await Wallet.findOne(...); await wallet[p](amount): answered 200,
\* or 500 when the primitive throws
CallPrimitive(s) ==
  /\ Receive(s)
  /\ \E p \in Primitives, w \in Wallets, a \in PrimitiveAmounts :
       LET res == ApplyPrimitive(p, wallets[w], a)
           n == [NewReq(p, "none") EXCEPT !.src = w, !.amount = a]
       IN IF res.ok
          THEN wallets' = WriteWallet(wallets, w, res) /\ Respond(s, n, 200)
          ELSE Respond(s, n, 500) /\ UNCHANGED wallets
  /\ UNCHANGED <<escrows, txs, applied, feesCharged, openingTotal, accounts>>

\* wallet.hasSufficientFunds(amount, includeLocked)
CallHasSufficientFunds(s) ==
  /\ Receive(s)
  /\ \E w \in Wallets, a \in PrimitiveAmounts, includeLocked \in BOOLEAN :
       Respond(s, [NewReq("hasSufficientFunds", "none") EXCEPT
                     !.src = w, !.amount = a, !.flag = includeLocked,
                     !.out = [result |-> HasSufficientFunds(wallets[w], a, includeLocked)]],
               200)
  /\ UNCHANGED <<wallets, escrows, txs, applied, feesCharged, openingTotal, accounts>>

\* await wallet.lockFunds(amount); await wallet.unlockFunds(amount) on one
\* document
LockThenUnlock(s) ==
  \/ /\ Receive(s)
     /\ \E w \in Wallets, a \in PrimitiveAmounts :
          LET res == LockFunds(wallets[w], a)
              n == [NewReq("lockThenUnlock", "none") EXCEPT !.src = w, !.amount = a]
          IN IF res.ok
             THEN /\ wallets' = WriteWallet(wallets, w, res)
                  /\ Goto(s, [n EXCEPT !.pw = res.doc], "unlock")
             ELSE Respond(s, n, 500) /\ UNCHANGED wallets
     /\ UNCHANGED <<escrows, txs, applied, feesCharged, openingTotal, accounts>>
  \/ /\ req[s].op = "lockThenUnlock"
     /\ LET r == req[s]
            res == UnlockFunds(r.pw, r.amount)
        IN IF res.ok
           THEN wallets' = WriteWallet(wallets, r.src, res) /\ Respond(s, r, 200)
           ELSE Respond(s, r, 500) /\ UNCHANGED wallets
     /\ UNCHANGED <<escrows, txs, applied, feesCharged, openingTotal, accounts, nreq>>

-----------------------------------------------------------------------------

Next(S) ==
  \E s \in S :
    \/ CreateEscrow(s)
    \/ TransferFunds(s)
    \/ ReleaseEscrow(s)
    \/ RefundEscrow(s)
    \/ RaiseDispute(s)
    \/ FulfillCondition(s)

\* every handler that touches a wallet, two requests at a time
NextLedger ==
  \E s \in ConcSlots :
    \/ CreateEscrow(s)
    \/ TransferFunds(s)
    \/ ReleaseEscrow(s)
    \/ RefundEscrow(s)
    \/ RaiseDispute(s)
    \/ FulfillCondition(s)
    \/ FundWallet(s)
    \/ WithdrawFromWallet(s)
    \/ CreatePayout(s)
    \/ CancelPayout(s)
    \/ MpesaB2CResult(s)
    \/ MpesaB2CTimeout(s)
    \/ BankConfirmation(s)

NextSerial == Next(SerialSlots)
NextConc == Next(ConcSlots)

Spec == Init /\ [][NextSerial]_vars
SpecConc == Init /\ [][NextConc]_vars

\* the ledger runs start from the stores that hold free funds and one escrow
InitLedger ==
  /\ Init
  /\ wallets["W1"].available = 300
  /\ escrows["E1"].exists /\ escrows["E1"].amount = 50
  /\ Len(escrows["E1"].conds) = 1
  /\ ~escrows["E2"].exists

SpecLedger == InitLedger /\ [][NextLedger]_vars

\* the transaction runs: the store holds one active escrow of 50 with a single
\* condition, free funds in W1 and possibly a payout that failed earlier (its
\* amount was credited back) after no or two retries
StoredRetries == {0, 2}

StoredPayouts ==
  {[PreSave(PayoutTx(200, "W1", "mpesa"), TRUE) EXCEPT
      !.status = "failed", !.retry_count = n, !.next_retry_at = (n > 0)] :
     n \in StoredRetries}

TxStore(f, stored) ==
  LET e1 == [NewEscrow(50, "W1", "W2", 1, FALSE, 1) EXCEPT !.status = "active"]
      es == [e \in EscrowIds |-> IF e = "E1" THEN e1 ELSE NoEscrow]
  IN /\ escrows = es
     /\ wallets = [w \in Wallets |->
                     [available |-> IF w = "W1" THEN f ELSE 0,
                      locked |-> LockedFor(es, w), pending |-> 0,
                      currency |-> "KES"]]
     /\ txs = <<HoldTx(e1, "E1")>> \o stored
     /\ req = [s \in Slots |-> IdleReq]
     /\ done = Answer(NewReq("none", "none"), 0)
     /\ applied = [e \in EscrowIds |-> [released |-> 0, refunded |-> 0]]
     /\ feesCharged = 0
     /\ openingTotal = f + LockedFor(es, "W1") + LockedFor(es, "W2")
     /\ accounts = Registered
     /\ nreq = 0

InitTx ==
  \E stored \in {<<>>} \cup {<<t>> : t \in StoredPayouts} : TxStore(300, stored)

\* the handlers that persist a Transaction or change one, one request at a
\* time
NextTx ==
  \E s \in SerialSlots :
    \/ FulfillCondition(s)
    \/ ReleaseEscrow(s)
    \/ CreatePayout(s)
    \/ CancelPayout(s)
    \/ RetryPayout(s)
    \/ MpesaB2CResult(s)
    \/ MpesaB2CTimeout(s)
    \/ BankConfirmation(s)
    \/ CreateCollection(s)
    \/ VerifyCollection(s)
    \/ CancelCollection(s)
    \/ MpesaC2BConfirmation(s)

SpecTx == InitTx /\ [][NextTx]_vars

\* the payout handlers, two requests at a time
NextPayouts ==
  \E s \in ConcSlots :
    \/ CreatePayout(s)
    \/ CancelPayout(s)
    \/ RetryPayout(s)
    \/ MpesaB2CResult(s)
    \/ MpesaB2CTimeout(s)
    \/ BankConfirmation(s)

SpecPayouts == InitTx /\ [][NextPayouts]_vars

\* the wallet runs: fundings, withdrawals and transfers, one at a time, on a
\* wallet whose available balance covers 200 with or without its fee
WalletFreeFunds == {200, 300}

InitWallet == \E f \in WalletFreeFunds : TxStore(f, <<>>)

NextWallet ==
  \E s \in SerialSlots :
    \/ FundWallet(s)
    \/ WithdrawFromWallet(s)
    \/ TransferFunds(s)

SpecWallet == InitWallet /\ [][NextWallet]_vars

\* the routing runs: selectPaymentRail on every input
NextRail == \E s \in SerialSlots : SelectRail(s)

SpecRail == InitWallet /\ [][NextRail]_vars

\* the guarded runs: the escrow requests whose callers and escrow statuses the
\* handlers check, one at a time, disputes also from a user who is no party
NextGuards ==
  \E s \in SerialSlots :
    \/ FulfillCondition(s)
    \/ ReleaseEscrow(s)
    \/ RefundEscrow(s)
    \/ RaiseDisputeByAnyone(s)

SpecGuards == Init /\ [][NextGuards]_vars

\* the fulfilment runs: fulfillCondition requests one after the other
NextFulfil == \E s \in SerialSlots : FulfillConditionStamped(s)

SpecFulfil == Init /\ [][NextFulfil]_vars

\* the primitive runs: two wallets with any of the balances, no escrow, no
\* Transaction, and calls of the ledger primitives one after the other
InitPrimitives ==
  /\ wallets \in [Wallets -> [available : PrimitiveBalances, locked : PrimitiveBalances, pending : PendingBalances, currency : {"KES"}]]
  /\ wallets["W2"] = [available |-> 0, locked |-> 50, pending |-> 0, currency |-> "KES"]
  /\ escrows = [e \in EscrowIds |-> NoEscrow]
  /\ txs = <<>>
  /\ req = [s \in Slots |-> IdleReq]
  /\ done = Answer(NewReq("none", "none"), 0)
  /\ applied = [e \in EscrowIds |-> [released |-> 0, refunded |-> 0]]
  /\ feesCharged = 0
  /\ openingTotal = wallets["W1"].available + wallets["W1"].locked + wallets["W2"].locked
  /\ accounts = Registered
  /\ nreq = 0

NextPrimitives ==
  \E s \in SerialSlots :
    \/ CallPrimitive(s)
    \/ CallHasSufficientFunds(s)
    \/ LockThenUnlock(s)

SpecPrimitives == InitPrimitives /\ [][NextPrimitives]_vars

\* the runs on an escrow whose release_settings.require_all_conditions is
\* false: the store holds it active, with one or two unfulfilled conditions
InitAnyCondition ==
  \E a \in StoredAmounts, n \in {1, 2}, f \in FreeFunds :
    LET e1 == [NewEscrow(a, "W1", "W2", n, FALSE, 1) EXCEPT
                 !.status = "active", !.require_all = FALSE]
        es == [e \in EscrowIds |-> IF e = "E1" THEN e1 ELSE NoEscrow]
    IN /\ escrows = es
       /\ wallets = [w \in Wallets |->
                       [available |-> IF w = "W1" THEN f ELSE 0,
                        locked |-> LockedFor(es, w), pending |-> 0,
                        currency |-> "KES"]]
       /\ txs = <<HoldTx(e1, "E1")>>
       /\ req = [s \in Slots |-> IdleReq]
       /\ done = Answer(NewReq("none", "none"), 0)
       /\ applied = [e \in EscrowIds |-> [released |-> 0, refunded |-> 0]]
       /\ feesCharged = 0
       /\ openingTotal = f + LockedFor(es, "W1") + LockedFor(es, "W2")
       /\ accounts = Registered
       /\ nreq = 0

NextAnyCondition ==
  \E s \in SerialSlots :
    \/ FulfillCondition(s)
    \/ ReleaseEscrow(s)

SpecAnyCondition == InitAnyCondition /\ [][NextAnyCondition]_vars

\* the callback runs: the store holds a pending collection of 200 whose
\* destination.wallet_id is W2, and the provider callbacks arrive two at a time
StoredCollections ==
  {[PreSave(CollectionTx(200, m), TRUE) EXCEPT !.dst_wallet = "W2", !.dst_method = "wallet"] : m \in {"mpesa", "bank"}}

InitCallbacks == \E t \in StoredCollections : TxStore(300, <<t>>)

NextCallbacks ==
  \E s \in ConcSlots :
    \/ MpesaC2BConfirmation(s)
    \/ BankConfirmation(s)

SpecCallbacks == InitCallbacks /\ [][NextCallbacks]_vars

\* the webhook runs: sendWebhook against an endpoint that answers or not
NextWebhook == \E s \in SerialSlots : SendWebhook(s)

SpecWebhook == InitWallet /\ [][NextWebhook]_vars

\* every pending axios.post settles (it has a 30 s timeout) and every timer
\* fires: a call of sendWebhook that can go on does go on
SpecWebhookLive ==
  SpecWebhook /\ WF_vars(\E s \in SerialSlots : SendWebhookRun(s))

\* the notified runs: the store holds a pending payout or a pending collection
\* whose metadata.webhook_url is set, and createPayout requests carry one
StoredNotified ==
  {[PreSave(PayoutTx(200, "W1", "mpesa"), TRUE) EXCEPT !.webhook_url = TRUE],
   [PreSave(CollectionTx(200, "mpesa"), TRUE) EXCEPT !.webhook_url = TRUE]}

InitNotify == \E t \in StoredNotified : TxStore(300, <<t>>)

NextNotify ==
  \E s \in SerialSlots :
    \/ CreatePayoutNotified(s)
    \/ MpesaB2CResult(s)
    \/ MpesaC2BConfirmation(s)

SpecNotify == InitNotify /\ [][NextNotify]_vars

-----------------------------------------------------------------------------
(* Properties *)

\* no handler is between two awaits
Idle == \A s \in Slots : req[s].op = "idle"

WalletTotal(w) == w.available + w.locked + w.pending

StoreTotal(ws) == WalletTotal(ws["W1"]) + WalletTotal(ws["W2"])

\* the amounts of the escrows that hold funds of wallet w
HeldFor(es, w) ==
  (IF es["E1"].exists /\ es["E1"].payer = w
      /\ es["E1"].status \in {"active", "disputed"} THEN es["E1"].amount ELSE 0) +
  (IF es["E2"].exists /\ es["E2"].payer = w
      /\ es["E2"].status \in {"active", "disputed"} THEN es["E2"].amount ELSE 0)

\* the last answered request addressed an existing escrow as user of role
\* "payer" or "payee"
DoneOn(op, role) ==
  /\ Idle
  /\ done.op = op
  /\ done.eid \in EscrowIds
  /\ done.preE[done.eid].exists
  /\ done.preE[done.eid][role] \in UserWalletIds(done.user)

\* C1: money is conserved: whenever no request is in progress, the balances of
\* all wallets plus the fees charged so far add up to the opening total,
\* whatever transfers and escrow creations, releases and refunds were served.
C1_Conservation ==
  Idle => StoreTotal(wallets) + feesCharged = openingTotal

\* C2: in every reachable state, whatever funding, withdrawal, transfer,
\* payout, escrow and provider-callback requests were served or are in
\* progress, every wallet's available, locked and pending balance is at least
\* zero.
C2_NonNegative ==
  \A w \in Wallets :
    /\ wallets[w].available >= 0
    /\ wallets[w].locked >= 0
    /\ wallets[w].pending >= 0

C2_Witness ==
  /\ Idle
  /\ applied["E1"].refunded + applied["E1"].released >= 1
  /\ \E i \in 1..Len(txs) :
       txs[i].type = "payout" /\ txs[i].status \in {"failed", "cancelled"}
  /\ \E w \in Wallets : wallets[w].available > 0
  /\ C2_NonNegative

\* C3: a refund by the payer of an active or disputed escrow returns the held
\* amount once: payer available +amount, payer locked -amount, payee wallet
\* unchanged, escrow refunded.
C3_RefundRestores ==
  (DoneOn("refund", "payer")
   /\ done.preE[done.eid].status \in {"active", "disputed"}) =>
    LET e == done.preE[done.eid] IN
    /\ wallets[e.payer].available = done.preW[e.payer].available + e.amount
    /\ wallets[e.payer].locked = done.preW[e.payer].locked - e.amount
    /\ wallets[e.payee] = done.preW[e.payee]
    /\ escrows[done.eid].status = "refunded"

\* C4: fulfilling the last open condition of an active auto_release escrow
\* releases it: status released, payer locked -amount, payee available
\* +amount less the 2% fee.
C4_AutoReleaseMovesFunds ==
  (DoneOn("fulfill", "payee")
   /\ done.preE[done.eid].status = "active"
   /\ done.preE[done.eid].auto_release
   /\ done.cid \in 1..Len(done.preE[done.eid].conds)
   /\ \A i \in 1..Len(done.preE[done.eid].conds) :
        i # done.cid => done.preE[done.eid].conds[i]) =>
    LET e == done.preE[done.eid] IN
    /\ escrows[done.eid].status = "released"
    /\ wallets[e.payer].locked = done.preW[e.payer].locked - e.amount
    /\ wallets[e.payee].available =
         done.preW[e.payee].available + e.amount - EscrowFee(e.amount)

\* C5: creating an escrow between two existing wallets, the payer holding at
\* least the amount, moves the amount from the payer's available to its locked
\* balance, leaves the payee wallet unchanged and ends with an active escrow.
C5_CreateLocksFunds ==
  (Idle /\ done.op = "createEscrow"
   /\ done.src \in Wallets /\ done.dst \in Wallets /\ done.src # done.dst
   /\ done.preW[done.src].available >= done.amount) =>
    /\ wallets[done.src].available = done.preW[done.src].available - done.amount
    /\ wallets[done.src].locked = done.preW[done.src].locked + done.amount
    /\ wallets[done.dst] = done.preW[done.dst]
    /\ \E e \in EscrowIds :
         /\ ~done.preE[e].exists
         /\ escrows[e].exists
         /\ escrows[e].status = "active"
         /\ escrows[e].amount = done.amount

\* C6: whenever no request is in progress, each wallet's locked balance is the
\* sum of the amounts of the active or disputed escrows it is the payer of.
C6_LockedMatchesHeld ==
  Idle => \A w \in Wallets : wallets[w].locked = HeldFor(escrows, w)

\* C7: an escrow that requires all conditions is never released, and never
\* credits its payee, while one of its conditions is unfulfilled; a release
\* request for such an active escrow leaves its status and every wallet as
\* they were.
C7_ConditionsGateRelease ==
  /\ \A e \in EscrowIds :
       (escrows[e].exists /\ escrows[e].require_all
        /\ ~AllConditionsFulfilled(escrows[e])) =>
         /\ escrows[e].status # "released"
         /\ applied[e].released = 0
  /\ (DoneOn("release", "payer")
      /\ done.preE[done.eid].status = "active"
      /\ done.preE[done.eid].require_all
      /\ ~AllConditionsFulfilled(done.preE[done.eid])) =>
       /\ escrows[done.eid].status = "active"
       /\ escrows = done.preE
       /\ wallets = done.preW

C7_Witness ==
  /\ DoneOn("release", "payer")
  /\ done.preE[done.eid].status = "active"
  /\ done.preE[done.eid].require_all
  /\ ~AllConditionsFulfilled(done.preE[done.eid])
  /\ done.code = 400
  /\ wallets[done.preE[done.eid].payer].locked >= done.preE[done.eid].amount

\* C8: for every escrow at most one fund-moving outcome (release to the payee
\* or refund to the payer) takes effect, and at most once, also when release
\* and refund requests for it are processed concurrently.
C8_OneOutcomeOnce ==
  \A e \in EscrowIds : applied[e].released + applied[e].refunded <= 1

LifecycleEdges ==
  {<<"none", "pending">>, <<"pending", "funded">>, <<"funded", "active">>,
   <<"active", "released">>, <<"active", "refunded">>,
   <<"active", "disputed">>, <<"active", "expired">>,
   <<"disputed", "released">>, <<"disputed", "refunded">>}

\* C9: every change of an escrow's status follows an edge of the lifecycle, so
\* released, refunded and expired are never left, under any interleaving of
\* create, fulfil, release, refund and dispute requests.
C9_LifecycleEdgesOnly ==
  [][\A e \in EscrowIds :
       escrows'[e].status # escrows[e].status =>
         <<escrows[e].status, escrows'[e].status>> \in LifecycleEdges]_vars

-----------------------------------------------------------------------------
(* Transactions: fees, statuses, payouts *)

\* C11: every persisted Transaction has fees.total_fee = fees.processing_fee +
\* fees.platform_fee and net_amount = amount - fees.total_fee, whichever
\* handler created or later saved it
C11_FeesAndNet ==
  \A i \in 1..Len(txs) :
    /\ txs[i].total_fee = txs[i].processing_fee + txs[i].platform_fee
    /\ txs[i].net_amount = txs[i].amount - txs[i].total_fee

\* an escrow_release, a payout and a collection Transaction have been saved;
\* the release one was built with the escrow's total_fee and the hold's net
\* amount, which the save replaced
C11_Witness ==
  /\ \E i \in 1..Len(txs) : txs[i].type = "escrow_release" /\ txs[i].total_fee = 0
  /\ \E i \in 1..Len(txs) : txs[i].type = "payout" /\ txs[i].total_fee > 0
                            /\ txs[i].status # "failed"

TerminalStatuses == {"completed", "failed", "cancelled"}

\* C12: a Transaction in status completed, failed or cancelled never changes
\* status again, except completed -> reversed and failed -> pending (a retry);
\* cancelCollection, verifyCollection, cancelPayout and the provider callbacks
\* leave such a Transaction as it is
C12_TerminalStatusesStay ==
  [][\A i \in 1..Len(txs) :
       txs[i].status \in TerminalStatuses =>
         \/ txs'[i].status = txs[i].status
         \/ txs[i].status = "completed" /\ txs'[i].status = "reversed"
         \/ txs[i].status = "failed" /\ txs'[i].status = "pending"]_vars

\* the last answered request turned payout i into failed
FailedBy(i) ==
  /\ Idle
  /\ done.txi = i
  /\ txs[i].type = "payout"
  /\ txs[i].status = "failed"
  /\ txs[i].src_wallet \in Wallets
  /\ i \in 1..Len(done.preT) => done.preT[i].status # "failed"

\* the available balance of the source wallet of payout i before that payout
\* was debited, as far as the last request saw it
BeforeDebit(i) ==
  IF i \in 1..Len(done.preT)
  THEN done.preW[txs[i].src_wallet].available + txs[i].amount
  ELSE done.preW[txs[i].src_wallet].available

\* C13: when a payout Transaction becomes failed after its source wallet was
\* debited, the wallet's available balance is credited back the full amount
\* deducted (amount + fees): a failed payout never leaves the wallet debited
C13_FailedPayoutRefunded ==
  \A i \in 1..Len(txs) :
    FailedBy(i) => wallets[txs[i].src_wallet].available = BeforeDebit(i)

\* the last answered request was retryPayout of a stored failed payout with
\* fewer than 3 retries
RetriedFailed ==
  /\ Idle
  /\ done.op = "retryPayout"
  /\ done.txi \in 1..Len(done.preT)
  /\ done.preT[done.txi].type = "payout"
  /\ done.preT[done.txi].status = "failed"
  /\ done.preT[done.txi].retry_count < 3

\* C14: retryPayout on a failed payout whose retry_count is below 3 moves the
\* Transaction from failed to pending, increments retry_count by exactly 1
\* and sets next_retry_at
C14_RetryMovesToPending ==
  RetriedFailed =>
    /\ txs[done.txi].status = "pending"
    /\ txs[done.txi].retry_count = done.preT[done.txi].retry_count + 1
    /\ txs[done.txi].next_retry_at

\* a retryPayout request goes past its checks only on a failed Transaction
\* with fewer than 3 retries; any other one is answered at once
RetryAdmittedOnlyIfEligible ==
  \A s \in Slots :
    (req[s].op = "idle" /\ req'[s].op = "retryPayout") =>
      /\ txs[req'[s].txi].status = "failed"
      /\ txs[req'[s].txi].retry_count < 3
      /\ txs' = txs

\* retry_count is written only by a retryPayout that went past its checks
RetryCountWrittenByRetry ==
  \A i \in 1..Len(txs) :
    txs'[i].retry_count # txs[i].retry_count =>
      \E s \in Slots : /\ req[s].op = "retryPayout"
                       /\ req[s].pc = "schedule"
                       /\ req[s].txi = i
                       /\ txs'[i].retry_count = req[s].tx.retry_count

\* C15: retry_count never exceeds 3: retryPayout is refused, leaving the
\* Transaction unchanged, whenever retry_count is already 3 or the status is
\* not failed, also when several retries of one payout run concurrently
C15_RetryCountBounded ==
  /\ [](\A i \in 1..Len(txs) : txs[i].retry_count <= 3)
  /\ [][RetryAdmittedOnlyIfEligible /\ RetryCountWrittenByRetry]_vars

\* two retries of one payout run concurrently: one has written retry_count 3,
\* the other is about to save its own copy
C15_Witness ==
  \E i \in 1..Len(txs), s \in Slots :
    /\ txs[i].retry_count = 3
    /\ req[s].op = "retryPayout" /\ req[s].pc = "schedule"
    /\ req[s].txi = i /\ req[s].tx.retry_count = 3

-----------------------------------------------------------------------------
(* Wallet handlers: withdrawals, transfers, fundings *)

\* the last answered request was op, made by the owner of wallet w
WalletDone(op, w) ==
  /\ Idle
  /\ done.op = op
  /\ w \in UserWalletIds(done.user)

\* a Transaction the last request added is left in one of the statuses
AddedTx(statuses) ==
  \E i \in 1..Len(txs) : i > Len(done.preT) /\ txs[i].status \in statuses

\* C16: withdrawFromWallet requires available >= amount + 1.5% fee: then it
\* debits amount + fee and leaves the Transaction in processing; with less
\* (also when amount <= available < amount + fee) it is rejected as
\* insufficient funds, changes no wallet and leaves no non-terminal Transaction
C16_WithdrawChecksAmountPlusFee ==
  WalletDone("withdraw", done.src) =>
    LET total == done.amount + ProcessingFee(done.amount)
        before == done.preW[done.src].available
    IN IF before >= total
       THEN /\ wallets[done.src].available = before - total
            /\ AddedTx({"processing"})
       ELSE /\ done.code = 400
            /\ wallets = done.preW
            /\ ~AddedTx({"pending", "processing"})

\* the last answered request was a transfer whose amount the source wallet
\* covers, but not amount plus the 0.5% fee
TransferAtBoundary ==
  /\ WalletDone("transfer", done.src)
  /\ done.dst \in Wallets
  /\ done.amount <= done.preW[done.src].available
  /\ done.preW[done.src].available < done.amount + TransferFee(done.amount)

C18_FundCreditsOnSuccess ==
  WalletDone("fund", done.dst) =>
    IF done.method = "card"
    THEN /\ wallets[done.dst].available =
              done.preW[done.dst].available + done.amount
         /\ AddedTx({"completed"})
    ELSE /\ wallets = done.preW
         /\ AddedTx({"processing"})

-----------------------------------------------------------------------------
(* Concurrency and failure of the ledger operations *)

\* handler s is about to run deductFunds on its copy of a wallet
Deducting(s) ==
  /\ req[s].op \in {"payout", "release", "withdraw", "transfer"}
  /\ req[s].pc = "deduct"

\* the wallet and the amount of that deduction
DeductWallet(s) == IF req[s].op = "release" THEN req[s].esc.payer ELSE req[s].src
DeductAmount(s) == IF req[s].op = "release" THEN req[s].esc.amount ELSE req[s].tx.amount

\* C19: concurrent deductions from one wallet are serialized: no other
\* request changes the balance between a request's available >= amount check
\* and its mutation, so each successful deduction takes its amount off the
\* balance stored at that moment (the final balance is the initial one minus
\* the deductions that succeeded, and two deductions that together exceed the
\* balance cannot both succeed)
C19_DeductionsSerialized ==
  [][\A s \in Slots :
       (Deducting(s) /\ req'[s].op = req[s].op /\ req'[s].pc # "deduct") =>
         /\ wallets[DeductWallet(s)].available = req[s].pw.available
         /\ wallets'[DeductWallet(s)].available =
              wallets[DeductWallet(s)].available - DeductAmount(s)]_vars

\* the last answered request was a release or a transfer moving funds from
\* wallet p to another wallet q
MovedFrom(p, q) ==
  /\ Idle
  /\ p \in Wallets /\ q \in Wallets /\ p # q
  /\ \/ /\ done.op = "release"
        /\ done.preE[done.eid].exists
        /\ done.preE[done.eid].payer = p /\ done.preE[done.eid].payee = q
     \/ /\ done.op = "transfer"
        /\ done.src = p /\ done.dst = q

\* C20: when the credit half of a transfer or an escrow release fails after
\* the debit half succeeded, the operation rolls back: once it has ended, the
\* source (payer) is not debited while the destination (payee) is not credited
C20_CreditFailureRollsBack ==
  \A p, q \in Wallets :
    (MovedFrom(p, q) /\ WalletTotal(wallets[p]) < WalletTotal(done.preW[p])) =>
      wallets[q].available > done.preW[q].available

-----------------------------------------------------------------------------
(* Payment rails and webhooks *)

\* the routing table of payouts
RoutingTable(type, amount, currency) ==
  CASE type = "wallet" -> <<"internal", 0, TRUE>>
    [] type = "mpesa" /\ amount <= 250000 -> <<"mpesa_b2c", (amount * 15) \div 1000, TRUE>>
    [] type = "mpesa" /\ amount > 250000 -> <<"mpesa_corporate", 100, FALSE>>
    [] type = "bank" /\ currency = "KES" /\ amount < 999999 -> <<"pesalink", 50, TRUE>>
    [] type = "bank" /\ ~(currency = "KES" /\ amount < 999999) -> <<"rtgs", 150, FALSE>>
    [] OTHER -> <<"unknown", 0, FALSE>>

\* C21: for every destination type, amount and currency selectPaymentRail
\* answers the rail, fee and instant flag of the routing table, and the answer
\* depends on nothing else
C21_RoutingTable ==
  done.op = "selectPaymentRail" =>
    /\ <<done.out.rail, done.out.fee, done.out.instant>> =
         RoutingTable(done.method, done.amount, done.currency)
    /\ wallets = done.preW /\ escrows = done.preE /\ txs = done.preT

\* an M-Pesa payout of exactly 250000 was routed (mpesa_b2c, fee 3750)
C21_Witness ==
  /\ done.op = "selectPaymentRail"
  /\ done.method = "mpesa" /\ done.amount = 250000
  /\ done.out.rail = "mpesa_b2c" /\ done.out.fee = 3750

\* the endpoint refused every attempt but the last one, which it accepted
FailedThenAnswered(replies) ==
  /\ Len(replies) >= 1
  /\ replies[Len(replies)]
  /\ \A j \in 1..(Len(replies) - 1) : ~replies[j]

\* C22: sendWebhook reports success with attempt = k exactly when the first
\* k-1 attempts failed and the k-th succeeded, k <= 3; it posts nothing after
\* a success; an endpoint failing twice and then succeeding gives attempt = 3
C22_DeliveredAtAttemptK ==
  done.op = "sendWebhook" =>
    /\ done.out.success <=> FailedThenAnswered(done.replies)
    /\ done.out.success =>
         /\ done.out.attempt = Len(done.replies)
         /\ done.out.attempt <= 3
         /\ done.posts = done.out.attempt
    /\ done.replies = <<FALSE, FALSE, TRUE>> =>
         done.out.success /\ done.out.attempt = 3

C22_Witness ==
  /\ done.op = "sendWebhook"
  /\ done.replies = <<FALSE, FALSE, TRUE>>
  /\ done.out.success
  /\ done.out.attempt = 3
  /\ done.posts = 3

\* sendWebhook has been called and has not returned
WebhookPending == \E s \in SerialSlots : req[s].op = "sendWebhook"

\* C23: against an endpoint that always fails sendWebhook terminates, reports
\* failure after exactly 3 attempts, having slept 5000 ms and then 15000 ms
\* and nothing after the third failure (45000 ms is never slept), and it
\* returns the failure instead of throwing
C23_GivesUpAfterThree ==
  /\ [](done.op = "sendWebhook" /\ done.replies = <<FALSE, FALSE, FALSE>> =>
          /\ ~done.out.success
          /\ ~done.out.threw
          /\ done.out.totalAttempts = 3
          /\ done.posts = 3
          /\ done.waits = <<5000, 15000>>)
  /\ [](done.op = "sendWebhook" /\ ~done.out.success =>
          done.replies = <<FALSE, FALSE, FALSE>>)
  /\ [](\A s \in SerialSlots : req[s].op = "sendWebhook" =>
          /\ req[s].posts <= 3
          /\ \A i \in 1..Len(req[s].waits) : req[s].waits[i] # 45000)
  /\ (WebhookPending ~> ~WebhookPending)

C23_Witness ==
  /\ done.op = "sendWebhook"
  /\ done.replies = <<FALSE, FALSE, FALSE>>
  /\ ~done.out.success
  /\ done.waits = <<5000, 15000>>

\* a handler is inside its webhook block: a delivery attempt or a backoff
\* sleep is pending
Notifying == \E s \in Slots : req[s].op \notin {"idle", "sendWebhook"} /\ req[s].pc \in {"post", "sleep"}

\* the answer in done was given after the webhook block was entered
Notified == done.op \in {"payout", "b2cResult", "c2bConfirmation"} /\ done.out # NoResult

\* C24: a notification never rolls back the financial transaction: while a
\* handler waits for the delivery, whatever its outcome (delivered, thrown,
\* given up after the retries), the wallets, the escrows and the Transactions
\* stay as the handler left them, and the handler answers as it would have
C24_NotificationKeepsState ==
  [][Notifying =>
       /\ UNCHANGED <<wallets, escrows, txs>>
       /\ ~Notifying' => done'.out # NoResult /\ done'.code \in {200, 201}]_vars

C24_Witness ==
  /\ done.op = "b2cResult"
  /\ done.flag
  /\ done.out = GaveUp(3)
  /\ done.code = 200
  /\ txs[done.txi].status = "completed"

\* C25: webhook delivery is decoupled from the request path: a handler
\* answers without having waited for a delivery attempt or a backoff sleep
C25_ResponseDoesNotWait ==
  Notified => done.posts = 0 /\ done.waits = <<>>

-----------------------------------------------------------------------------
(* Errors, conditions, audit trail and ledger primitives *)

\* the caller of the answered escrow request may not make it
Unauthorized(d) ==
  LET e == d.preE[d.eid] IN
  CASE d.op = "fulfill" -> ~(e.payee \in UserWalletIds(d.user))
    [] d.op \in {"release", "refund"} -> ~(e.payer \in UserWalletIds(d.user))
    [] d.op = "dispute" -> ~(e.payer \in UserWalletIds(d.user) \/ e.payee \in UserWalletIds(d.user))
    [] OTHER -> FALSE

\* the status of the escrow does not admit the answered request
StatusRefuses(d) ==
  LET e == d.preE[d.eid] IN
  CASE d.op \in {"fulfill", "dispute", "release"} -> e.status # "active"
    [] d.op = "refund" -> e.status \notin {"active", "disputed"}
    [] OTHER -> FALSE

\* C26: validation and authorization errors cause no mutation: a
\* fulfillCondition by a caller who is not the payee, a release or refund by
\* a caller who is not the payer, a dispute by a non-party, and any of them
\* on an escrow whose status does not admit it, are answered with an error
\* (403, 400) and leave the wallets, the escrows and the Transactions as they
\* were
C26_ErrorsMutateNothing ==
  Idle /\ done.op \in {"fulfill", "release", "refund", "dispute"} /\ done.eid \in EscrowIds /\ done.preE[done.eid].exists =>
    /\ Unauthorized(done) => done.code = 403
    /\ ~Unauthorized(done) /\ StatusRefuses(done) => done.code = 400
    /\ done.code \in {400, 403} =>
         wallets = done.preW /\ escrows = done.preE /\ txs = done.preT

C26_Witness ==
  /\ Idle
  /\ done.op = "refund"
  /\ done.preE[done.eid].exists
  /\ done.preE[done.eid].status = "released"
  /\ ~Unauthorized(done)
  /\ done.code = 400
  /\ wallets = done.preW /\ escrows = done.preE /\ txs = done.preT

\* the answered fulfillCondition named a condition that was fulfilled before
Refulfilled ==
  /\ Idle
  /\ done.op = "fulfill"
  /\ done.code = 200
  /\ done.eid \in EscrowIds
  /\ done.cid \in 1..Len(done.preE[done.eid].conds)
  /\ done.preE[done.eid].conds[done.cid]

\* C27: a second fulfillCondition on a condition leaves its fulfilled flag,
\* fulfilled_at and fulfilled_by as the first fulfilment set them
C27_SecondFulfilmentKeepsFirst ==
  Refulfilled =>
    /\ escrows[done.eid].conds[done.cid]
    /\ escrows[done.eid].fulfilled_at[done.cid] = done.preE[done.eid].fulfilled_at[done.cid]
    /\ escrows[done.eid].fulfilled_by[done.cid] = done.preE[done.eid].fulfilled_by[done.cid]

\* a persisted Transaction names wallet w as its source or its destination
Referenced(w) ==
  \E i \in 1..Len(txs) : txs[i].src_wallet = w \/ txs[i].dst_wallet = w

\* C28: every change of a wallet's balances is paired with a Transaction:
\* after each answered request, a wallet whose available or locked balance
\* differs from before the request is the source or the destination of a
\* persisted Transaction
C28_BalanceChangesRecorded ==
  Idle =>
    \A w \in Wallets :
      (wallets[w].available # done.preW[w].available \/ wallets[w].locked # done.preW[w].locked)
        => Referenced(w)

\* a call on a wallet has been answered: the wallet before and after
Called(ops) == Idle /\ done.op \in ops /\ done.src \in Wallets

Before == done.preW[done.src]

After == wallets[done.src]

\* C29: lockFunds(a) with available >= a moves a from available to locked,
\* unlockFunds(a) with locked >= a moves it back; both keep available + locked
\* and pending; lockFunds(a) followed by unlockFunds(a) restores the balances
C29_LockUnlockAlgebra ==
  /\ Called({"lockFunds"}) /\ Before.available >= done.amount =>
       /\ done.code = 200
       /\ After.available = Before.available - done.amount
       /\ After.locked = Before.locked + done.amount
  /\ Called({"unlockFunds"}) /\ Before.locked >= done.amount =>
       /\ done.code = 200
       /\ After.available = Before.available + done.amount
       /\ After.locked = Before.locked - done.amount
  /\ Called({"lockFunds", "unlockFunds"}) =>
       /\ After.available + After.locked = Before.available + Before.locked
       /\ After.pending = Before.pending
  /\ Called({"lockThenUnlock"}) /\ Before.available >= done.amount =>
       done.code = 200 /\ wallets = done.preW

C29_Witness ==
  /\ Called({"lockThenUnlock"})
  /\ done.amount = 50
  /\ Before.available = 100
  /\ Before.pending = 30
  /\ done.code = 200
  /\ wallets = done.preW

\* the precondition of the answered primitive did not hold
PreconditionFails ==
  \/ Called({"lockFunds", "deductFunds"}) /\ done.amount > Before.available
  \/ Called({"unlockFunds", "releaseFunds"}) /\ done.amount > Before.locked

\* C30: a ledger primitive whose precondition fails (lockFunds, deductFunds
\* with amount > available; unlockFunds, releaseFunds with amount > locked)
\* fails with an error and leaves the three balances as they were;
\* hasSufficientFunds changes no balance
C30_FailedPrimitiveChangesNothing ==
  /\ PreconditionFails => done.code = 500 /\ wallets = done.preW
  /\ Called({"hasSufficientFunds"}) => wallets = done.preW

C30_Witness ==
  /\ Called({"deductFunds"})
  /\ done.amount = 100
  /\ Before.available = 50
  /\ done.code = 500
  /\ wallets = done.preW

-----------------------------------------------------------------------------
(* Release eligibility, callbacks, figures, currencies, enumerations *)

CollectionCompleted ==
  /\ Idle
  /\ done.op \in {"createCollection", "c2bConfirmation", "bankConfirmation", "verifyCollection"}
  /\ done.txi \in 1..Len(txs)
  /\ txs[done.txi].type = "collection"
  /\ txs[done.txi].status = "completed"
  /\ (done.txi \in 1..Len(done.preT) => done.preT[done.txi].status # "completed")

\* C33: a collection Transaction reaches completed only together with a
\* credit of its net_amount to a wallet, whichever path completes it
C33_CompletedMeansCredited ==
  CollectionCompleted =>
    \E w \in Wallets :
      wallets[w].available = done.preW[w].available + txs[done.txi].net_amount

-----------------------------------------------------------------------------
(* createBulkPayouts and the payouts it stores *)

BulkSourcesIn == WalletIdsIn \cup {"none"}    \* source_wallet_id, or none given
BulkMethodsIn == {"mpesa", "bank"}            \* payment_method of a bulk payout

\* the Transaction createPayoutInternal builds: the fee is 1.5% of the amount,
\* the source is the given wallet or the payment method 'external'
BulkPayoutTx(amount, src, method) ==
  NewTx("payout", "pending", amount + ProcessingFee(amount),
        ProcessingFee(amount), 0, ProcessingFee(amount), amount,
        src, IF src = "none" THEN "external" ELSE "wallet", "none", method, "none")

\* createBulkPayouts with one payout in the list: createPayoutInternal saves
\* the Transaction, sets it to processing and saves again; no wallet is
\* loaded; an error of the payout is caught and reported in the results
CreateBulkPayouts(s) ==
  \/ /\ Receive(s)
     /\ \E u \in Users, a \in PayoutAmounts, w \in BulkSourcesIn, m \in BulkMethodsIn :
          LET r == [NewReq("createBulkPayouts", u) EXCEPT !.amount = a, !.src = w,
                                                          !.method = m]
              t == PreSave(BulkPayoutTx(a, w, m), TRUE)
          IN IF ~ValidTransaction(t)
             THEN Respond(s, r, 201) /\ UNCHANGED txs
             ELSE /\ txs' = Append(txs, t)
                  /\ Goto(s, [r EXCEPT !.txi = Len(txs) + 1], "status")
     /\ UNCHANGED <<wallets, escrows, applied, feesCharged, openingTotal, accounts>>
  \/ /\ req[s].op = "createBulkPayouts"
     /\ req[s].pc = "status"
     /\ txs' = [txs EXCEPT ![req[s].txi].status = "processing"]
     /\ Respond(s, req[s], 201)
     /\ UNCHANGED <<wallets, escrows, applied, feesCharged, openingTotal, accounts, nreq>>

\* payouts, single and bulk, with their callbacks and cancellation, one
\* request at a time, on a wallet that covers one payout
InitBulk == TxStore(300, <<>>)

NextBulk ==
  \E s \in SerialSlots :
    \/ CreatePayout(s)
    \/ CreateBulkPayouts(s)
    \/ CancelPayout(s)
    \/ MpesaB2CResult(s)
    \/ MpesaB2CTimeout(s)

SpecBulk == InitBulk /\ [][NextBulk]_vars

\* C34: what failure handling, the B2C callbacks and cancelPayout credit back
\* to the source wallet of a payout never exceeds what was deducted from it
\* for that payout: where payouts are the only operations, the wallets
\* together never hold more than at the start
C34_RefundWithinDeduction ==
  StoreTotal(wallets) <= openingTotal

\* an answered createPayout that went through, to a destination other than
\* its own source wallet
PayoutCreated ==
  /\ Idle
  /\ done.op = "payout"
  /\ done.code = 201
  /\ done.dst # done.src

\* C35: createPayout charges the fee once: what the provider is handed (or the
\* destination wallet is credited) plus the routing fee is what the source
\* wallet lost, and the net_amount of the answer is the net_amount stored on
\* the Transaction
C35_FeeChargedOnce ==
  PayoutCreated =>
    /\ done.handed + txs[done.txi].total_fee =
         done.preW[done.src].available - wallets[done.src].available
    /\ done.net_amount = txs[done.txi].net_amount

\* an answered releaseEscrow that recorded its escrow_release Transaction
ReleaseRecorded ==
  /\ Idle
  /\ done.op = "release"
  /\ done.code = 200
  /\ Len(txs) = Len(done.preT) + 1
  /\ txs[Len(txs)].type = "escrow_release"

\* what the answered request credited to the payee wallet of its escrow
CreditedToPayee ==
  wallets[escrows[done.eid].payee].available -
    done.preW[escrows[done.eid].payee].available

\* C36: the escrow_release Transaction carries the figures of the movement it
\* records: its net_amount is what the payee wallet was credited, its
\* total_fee is the escrow fee withheld, the amount less that credit
C36_ReleaseRecordMatchesMovement ==
  ReleaseRecorded =>
    /\ txs[Len(txs)].net_amount = CreditedToPayee
    /\ txs[Len(txs)].total_fee = escrows[done.eid].amount - CreditedToPayee

-----------------------------------------------------------------------------
(* Wallets of two currencies *)

\* the store of TxStore(300, <<>>), the wallet W2 being of either currency;
\* createWallet takes the currency from the request and createEscrow compares
\* no currencies
InitCurrencies ==
  \E c \in CurrenciesIn :
    LET e1 == [NewEscrow(50, "W1", "W2", 1, FALSE, 1) EXCEPT !.status = "active"]
        es == [e \in EscrowIds |-> IF e = "E1" THEN e1 ELSE NoEscrow]
    IN /\ escrows = es
       /\ wallets = [w \in Wallets |->
                       [available |-> IF w = "W1" THEN 300 ELSE 0,
                        locked |-> LockedFor(es, w), pending |-> 0,
                        currency |-> IF w = "W2" THEN c ELSE "KES"]]
       /\ txs = <<HoldTx(e1, "E1")>>
       /\ req = [s \in Slots |-> IdleReq]
       /\ done = Answer(NewReq("none", "none"), 0)
       /\ applied = [e \in EscrowIds |-> [released |-> 0, refunded |-> 0]]
       /\ feesCharged = 0
       /\ openingTotal = 300 + LockedFor(es, "W1") + LockedFor(es, "W2")
       /\ accounts = Registered
       /\ nreq = 0

\* the operations that debit one wallet and credit another, one at a time
NextCurrencies ==
  \E s \in SerialSlots :
    \/ TransferFunds(s)
    \/ FulfillCondition(s)
    \/ ReleaseEscrow(s)
    \/ CreatePayout(s)

SpecCurrencies == InitCurrencies /\ [][NextCurrencies]_vars

\* C37: funds do not move between wallets of different currencies: when an
\* answered request has left one wallet with less and another with more, the
\* two wallets have the same currency
C37_NoTransferAcrossCurrencies ==
  Idle =>
    \A v \in Wallets, w \in Wallets :
      (/\ WalletTotal(wallets[v]) < WalletTotal(done.preW[v])
       /\ WalletTotal(wallets[w]) > WalletTotal(done.preW[w]))
        => wallets[v].currency = wallets[w].currency

\* C38: the Transaction that fundWallet, withdrawFromWallet or transferFunds
\* builds is admitted by the enumerations of the Transaction schema: such a
\* request is not answered 500 with no Transaction stored, its first save
\* having been refused
C38_FirstSaveAdmitted ==
  (/\ Idle
   /\ done.op \in {"fund", "withdraw", "transfer"}
   /\ done.code = 500) =>
    Len(txs) > Len(done.preT)

-----------------------------------------------------------------------------
(* Account lifecycle: KYC submission, documents, approvals, API keys *)

DocTypesIn == {"owner_id", "bank_statement"}    \* document types a request names
AccountIdsIn == {"U1"} \cup Strangers           \* U3: an id with no account
KeyKindsIn == {"test", "live", "other"}         \* prefix of the API key sent

\* User.findById finds a document
UserFound(u) == u \in Users

\* the paths of a document that differ from the loaded ones
Modified(old, new) == {f \in DOMAIN new : new[f] # old[f]}

\* user.save(): validation, then the modified paths are written
SaveUser(s, r, doc, mod, code) ==
  /\ IF ValidUser(doc)
     THEN accounts' = WriteUser(accounts, r.user, doc, mod) /\ Respond(s, r, code)
     ELSE Respond(s, r, 500) /\ UNCHANGED accounts
  /\ UNCHANGED <<wallets, escrows, txs, applied, feesCharged, openingTotal, nreq>>

\* submitKYC of the auth controller: kyc_documents is replaced, kyc_status
\* becomes pending and status becomes 'kyc_pending'
SubmitKYCAuth(s) ==
  \/ /\ Receive(s)
     /\ \E u \in AccountIdsIn :
          LET r == NewReq("submitKYCAuth", u) IN
          IF ~UserFound(u) THEN Respond(s, r, 404)
          ELSE Goto(s, [r EXCEPT !.usr = accounts[u]], "save")
     /\ UNCHANGED <<wallets, escrows, txs, applied, feesCharged, openingTotal, accounts>>
  \/ /\ req[s].op = "submitKYCAuth"
     /\ LET r == req[s]
            doc == [r.usr EXCEPT !.docs = DocTypesIn, !.kyc_status = "pending",
                                 !.status = "kyc_pending"]
        IN SaveUser(s, r, doc, Modified(r.usr, doc), 200)

\* submitKYC of the KYC controller: refused when KYC is pending or approved;
\* a document whose upload fails ends the request before the save
SubmitKYC(s) ==
  \/ /\ Receive(s)
     /\ \E u \in AccountIdsIn, d \in SUBSET DocTypesIn :
          LET r == [NewReq("submitKYC", u) EXCEPT !.docs = d] IN
          IF ~UserFound(u) THEN Respond(s, r, 404)
          ELSE IF accounts[u].kyc_status \in {"pending", "approved"}
          THEN Respond(s, r, 400)
          ELSE Goto(s, [r EXCEPT !.usr = accounts[u]], "save")
     /\ UNCHANGED <<wallets, escrows, txs, applied, feesCharged, openingTotal, accounts>>
  \/ /\ req[s].op = "submitKYC"
     /\ LET r == req[s]
            doc == [r.usr EXCEPT !.docs = @ \cup r.docs, !.kyc_status = "pending"]
        IN \E uploaded \in BOOLEAN :
             IF uploaded \/ r.docs = {}
             THEN SaveUser(s, r, doc, Modified(r.usr, doc), 200)
             ELSE /\ Respond(s, r, 400)
                  /\ UNCHANGED <<wallets, escrows, txs, applied, feesCharged,
                                 openingTotal, accounts, nreq>>

\* uploadDocuments: refused when KYC is approved; the documents whose upload
\* succeeds are set, and a first document makes kyc_status pending
UploadDocuments(s) ==
  \/ /\ Receive(s)
     /\ \E u \in AccountIdsIn, d \in SUBSET DocTypesIn :
          LET r == [NewReq("uploadDocuments", u) EXCEPT !.docs = d] IN
          IF ~UserFound(u) THEN Respond(s, r, 404)
          ELSE IF accounts[u].kyc_status = "approved" THEN Respond(s, r, 400)
          ELSE Goto(s, [r EXCEPT !.usr = accounts[u]], "save")
     /\ UNCHANGED <<wallets, escrows, txs, applied, feesCharged, openingTotal, accounts>>
  \/ /\ req[s].op = "uploadDocuments"
     /\ LET r == req[s] IN
        \E up \in SUBSET r.docs :
          LET doc == [r.usr EXCEPT
                        !.docs = @ \cup up,
                        !.kyc_status = IF up # {} /\ @ = "not_submitted"
                                       THEN "pending" ELSE @]
          IN SaveUser(s, r, doc, Modified(r.usr, doc), 200)

\* deleteDocument: refused when KYC is approved; `delete` on the nested
\* kyc_documents removes the document, removes it from the loaded copy only,
\* or leaves it, as the document library has it; with no document left
\* kyc_status becomes not_submitted
DeleteDocument(s) ==
  \/ /\ Receive(s)
     /\ \E u \in AccountIdsIn, t \in DocTypesIn \cup {"other"} :
          LET r == [NewReq("deleteDocument", u) EXCEPT !.docs = {t}] IN
          IF ~UserFound(u) THEN Respond(s, r, 404)
          ELSE IF accounts[u].kyc_status = "approved" THEN Respond(s, r, 400)
          ELSE IF ~(t \in DocTypesIn) THEN Respond(s, r, 400)
          ELSE IF ~(t \in accounts[u].docs) THEN Respond(s, r, 200)
          ELSE Goto(s, [r EXCEPT !.usr = accounts[u]], "save")
     /\ UNCHANGED <<wallets, escrows, txs, applied, feesCharged, openingTotal, accounts>>
  \/ /\ req[s].op = "deleteDocument"
     /\ LET r == req[s] IN
        \E outcome \in {"removed", "unsaved", "kept"} :
          LET left == IF outcome = "kept" THEN r.usr.docs ELSE r.usr.docs \ r.docs
              doc == [r.usr EXCEPT
                        !.docs = left,
                        !.kyc_status = IF left = {} THEN "not_submitted" ELSE @]
          IN SaveUser(s, r, doc,
                      Modified(r.usr, doc) \ (IF outcome = "unsaved" THEN {"docs"} ELSE {}),
                      200)

\* approveAccount of the admin controller: only a pending account; live mode
\* only when KYC is approved
ApproveAccount(s) ==
  \/ /\ Receive(s)
     /\ \E u \in AccountIdsIn, live \in BOOLEAN :
          LET r == [NewReq("approveAccount", u) EXCEPT !.flag = live] IN
          IF ~UserFound(u) THEN Respond(s, r, 404)
          ELSE IF accounts[u].status # "pending" THEN Respond(s, r, 400)
          ELSE IF live /\ accounts[u].kyc_status # "approved" THEN Respond(s, r, 400)
          ELSE Goto(s, [r EXCEPT !.usr = accounts[u]], "save")
     /\ UNCHANGED <<wallets, escrows, txs, applied, feesCharged, openingTotal, accounts>>
  \/ /\ req[s].op = "approveAccount"
     /\ LET r == req[s]
            doc == IF r.flag
                   THEN GenerateAPIKeys([r.usr EXCEPT !.status = "approved",
                                                      !.mode = "live"])
                   ELSE [r.usr EXCEPT !.status = "approved"]
        IN SaveUser(s, r, doc,
                    Modified(r.usr, doc) \cup (IF r.flag THEN {"live_keys"} ELSE {}), 200)

\* approveKYC: only a pending KYC; sets kyc_status approved, mode live, the
\* trust score and new API keys
ApproveKYC(s) ==
  \/ /\ Receive(s)
     /\ \E u \in AccountIdsIn :
          LET r == NewReq("approveKYC", u) IN
          IF ~UserFound(u) THEN Respond(s, r, 404)
          ELSE IF accounts[u].kyc_status # "pending" THEN Respond(s, r, 400)
          ELSE Goto(s, [r EXCEPT !.usr = accounts[u]], "save")
     /\ UNCHANGED <<wallets, escrows, txs, applied, feesCharged, openingTotal, accounts>>
  \/ /\ req[s].op = "approveKYC"
     /\ LET r == req[s]
            doc == GenerateAPIKeys([r.usr EXCEPT !.kyc_status = "approved",
                                                 !.mode = "live", !.trust_score = 85])
        IN SaveUser(s, r, doc, Modified(r.usr, doc) \cup {"live_keys"}, 200)

\* rejectKYC: a reason is required; only a pending KYC
RejectKYC(s) ==
  \/ /\ Receive(s)
     /\ \E u \in AccountIdsIn, reason \in BOOLEAN :
          LET r == [NewReq("rejectKYC", u) EXCEPT !.flag = reason] IN
          IF ~reason THEN Respond(s, r, 400)
          ELSE IF ~UserFound(u) THEN Respond(s, r, 404)
          ELSE IF accounts[u].kyc_status # "pending" THEN Respond(s, r, 400)
          ELSE Goto(s, [r EXCEPT !.usr = accounts[u]], "save")
     /\ UNCHANGED <<wallets, escrows, txs, applied, feesCharged, openingTotal, accounts>>
  \/ /\ req[s].op = "rejectKYC"
     /\ LET r == req[s]
            doc == [r.usr EXCEPT !.kyc_status = "rejected"]
        IN SaveUser(s, r, doc, Modified(r.usr, doc), 200)

\* apiKeyAuth with a key of user u: the key has the test or the live prefix
\* and is stored, the account is approved, and a live key needs mode live;
\* then next() runs the route with req.user set
ApiKeyAuth(s) ==
  \/ /\ Receive(s)
     /\ \E u \in Users, k \in KeyKindsIn :
          LET r == [NewReq("apiKeyAuth", u) EXCEPT !.method = k] IN
          IF k = "other" THEN Respond(s, r, 401)
          ELSE IF k = "live" /\ ~accounts[u].live_keys THEN Respond(s, r, 401)
          ELSE IF accounts[u].status # "approved" THEN Respond(s, r, 403)
          ELSE IF k = "live" /\ accounts[u].mode # "live" THEN Respond(s, r, 403)
          ELSE Goto(s, r, "next")
     /\ UNCHANGED <<wallets, escrows, txs, applied, feesCharged, openingTotal, accounts>>
  \/ /\ req[s].op = "apiKeyAuth"
     /\ Respond(s, req[s], 200)
     /\ UNCHANGED <<wallets, escrows, txs, applied, feesCharged, openingTotal,
                    accounts, nreq>>

\* the accounts in the store: one as registered, one approved for test mode
\* with its documents uploaded and KYC pending
StoredAccounts ==
  {NewUser,
   [NewUser EXCEPT !.status = "approved", !.kyc_status = "pending",
                   !.docs = {"owner_id"}]}

InitAccounts ==
  \E a \in StoredAccounts :
    /\ wallets = [w \in Wallets |-> NoWallet]
    /\ escrows = [e \in EscrowIds |-> NoEscrow]
    /\ txs = <<>>
    /\ req = [s \in Slots |-> IdleReq]
    /\ done = Answer(NewReq("none", "none"), 0)
    /\ applied = [e \in EscrowIds |-> [released |-> 0, refunded |-> 0]]
    /\ feesCharged = 0
    /\ openingTotal = 0
    /\ accounts = [u \in Users |-> IF u = "U1" THEN a ELSE NewUser]
    /\ nreq = 0

\* the account operations, two requests at a time
NextAccounts ==
  \E s \in ConcSlots :
    \/ SubmitKYCAuth(s)
    \/ SubmitKYC(s)
    \/ UploadDocuments(s)
    \/ DeleteDocument(s)
    \/ ApproveAccount(s)
    \/ ApproveKYC(s)
    \/ RejectKYC(s)
    \/ ApiKeyAuth(s)

SpecAccounts == InitAccounts /\ [][NextAccounts]_vars

\* C39: an account whose mode is live has kyc_status approved, whatever KYC
\* submissions, document uploads and deletions, approveAccount, approveKYC and
\* rejectKYC have run; and a request that apiKeyAuth let through with a live
\* key is of an account in mode live
C39_LiveMeansApproved ==
  /\ \A u \in Users : accounts[u].mode = "live" => accounts[u].kyc_status = "approved"
  /\ \A s \in Slots :
       (req[s].op = "apiKeyAuth" /\ req[s].pc = "next" /\ req[s].method = "live")
         => accounts[req[s].user].mode = "live"

=============================================================================
